---- MODULE Spec2Model ----
(***************************************************************************)
(* Code Guardian: the chat session store (ChatSessionManager), the chat    *)
(* controller (ChatController), the provider layer (AIService and its      *)
(* three providers) and the fix orchestrator (FixAgent).                   *)
(*                                                                         *)
(* Text is a sequence of units; a unit is a string standing for one        *)
(* character or one indivisible piece of text.  Concatenation is \o.       *)
(* Ids produced by randomId() are fresh; session ids come from a counter   *)
(* and a message id is its position in the session at the time it was      *)
(* added (messages are looked up by id inside one session only).           *)
(***************************************************************************)
EXTENDS Integers, Sequences, FiniteSets, TLC

VARIABLES
    sessions,         \* ChatSessionManager.sessions
    activeSessionId,  \* ChatSessionManager.activeSessionId (NoId: undefined)
    persisted,        \* the value stored in the memento under STORAGE_KEY
    emitted,          \* the last snapshot fired on onDidChangeState
    nextId,           \* the next fresh session id
    provider,         \* AIService: provider name and api key
    chats,            \* the handleUserMessage invocations in flight
    runs,             \* the FixAgent.run invocations
    document,         \* the text document a fix run edits
    lastCall,         \* history: the handleUserMessage call the last step ended (NoCall: none)
    lastOp,           \* history: the select, rename or delete intent of the last step (NoOp: none)
    review,           \* a response of the approval agent and its parsed approval
    chatHistory,      \* the messages of a session and the history built from them
    service,          \* one operation of AIService, its exchange and its outcome
    fixContext,       \* a document, a diagnostic range and the context built from them
    memento           \* what the memento held at activation, and whether the manager was constructed

vars == <<sessions, activeSessionId, persisted, emitted, nextId, provider, chats, runs, document, lastCall, lastOp,
          review, chatHistory, service, fixContext, memento>>

\* The variables that hold the input and the result of a function applied on its own.
probes == <<review, chatHistory, service, fixContext, memento>>

(***************************************************************************)
(* Bounds                                                                  *)
(***************************************************************************)
MaxSessions == 2     \* session ids ever handed out
MaxChats == 2        \* handleUserMessage invocations that reach the provider
MaxRuns == 1         \* FixAgent.run invocations
LineCount == 12      \* lines of the document
LongTextLen == 21    \* length of the longest reply text of a provider

NoId == 0
Absent == <<"undefined">>

(***************************************************************************)
(* Text helpers                                                            *)
(***************************************************************************)
WhiteSpace == {" ", "\n"}

RECURSIVE trimStart(_)
trimStart(t) == IF t # <<>> /\ Head(t) \in WhiteSpace THEN trimStart(Tail(t)) ELSE t

RECURSIVE trimEnd(_)
trimEnd(t) == IF t # <<>> /\ t[Len(t)] \in WhiteSpace THEN trimEnd(SubSeq(t, 1, Len(t) - 1)) ELSE t

\* A trim that removes nothing.
trimNothing(t) == t

trim(t) == trimEnd(trimStart(t))

RECURSIVE Concat(_)
Concat(parts) == IF parts = <<>> THEN <<>> ELSE Head(parts) \o Concat(Tail(parts))

(***************************************************************************)
(* Data model (types.ts)                                                   *)
(***************************************************************************)
ChatSessionType == {"qa", "fix"}
ChatSessionStatus == {"idle", "running", "completed", "error"}
ChatMessageRole == {"system", "user", "assistant", "tool", "agent"}
MetaKeys == {"filePath", "diagnosticCode", "vulnerabilityMessage", "fixProposal", "approvalNotes"}

NoMetadata == [k \in MetaKeys |-> Absent]

\* Fields a stored session may lack (written by an earlier schema).
OptionalFields == {"allowUserInput", "status", "messages"}

(***************************************************************************)
(* ChatSessionManager                                                      *)
(* A store value st carries the manager's fields so that the operations    *)
(* of one handler can be chained.                                          *)
(***************************************************************************)
findIndex(ss, id) ==
    IF \E i \in 1..Len(ss) : ss[i].id = id
    THEN CHOOSE i \in 1..Len(ss) : ss[i].id = id /\ \A j \in 1..(i - 1) : ss[j].id # id
    ELSE 0

getSession(st, sessionId) == findIndex(st.sessions, sessionId)

getState(st) == [sessions |-> st.sessions, activeSessionId |-> st.activeSessionId]

persist(st) ==
    [st EXCEPT !.persisted = [i \in 1..Len(st.sessions) |-> [s |-> st.sessions[i], missing |-> {}]]]

\* An emitState that fires nothing.
emitStateNothing(st) == st

emitState(st) == [st EXCEPT !.emitted = getState(st)]

loadSessionsBad(stored) ==
    [i \in 1..Len(stored) |->
        [stored[i].s EXCEPT
            !.allowUserInput = IF "allowUserInput" \in stored[i].missing THEN TRUE ELSE @,
            !.status = IF "status" \in stored[i].missing THEN "idle" ELSE @,
            !.messages = IF "messages" \in stored[i].missing THEN <<>> ELSE @]]

loadSessions(stored) ==
    [i \in 1..Len(stored) |->
        [stored[i].s EXCEPT
            !.allowUserInput = IF "allowUserInput" \in stored[i].missing THEN stored[i].s.type = "qa" ELSE @,
            !.status = IF "status" \in stored[i].missing THEN "idle" ELSE @,
            !.messages = IF "messages" \in stored[i].missing THEN <<>> ELSE @]]

defaultTitleForType(type) == IF type = "qa" THEN <<"Security Q&A">> ELSE <<"AI Fix">>

\* A setActiveSession that does not look the id up.
setActiveSessionUnchecked(st, sessionId) ==
    emitState(persist([st EXCEPT !.activeSessionId = sessionId]))

setActiveSession(st, sessionId) ==
    IF sessionId # NoId /\ findIndex(st.sessions, sessionId) = 0
    THEN st
    ELSE emitState(persist([st EXCEPT !.activeSessionId = sessionId]))

\* updatedAt: the creation time ("created") or the Date.now() of a later
\* call on the session ("later").
newSession(id, type, title, metadata) ==
    [id |-> id, type |-> type, title |-> title, allowUserInput |-> (type = "qa"),
     status |-> "idle", messages |-> <<>>, metadata |-> metadata, updatedAt |-> "created"]

\* A createSession that starts the list over with the new session.
createSessionAlone(st, type, title, metadata) ==
    emitState(persist([st EXCEPT
        !.sessions = <<newSession(st.nextId, type, title, metadata)>>,
        !.activeSessionId = st.nextId,
        !.nextId = @ + 1]))

createSession(st, type, title, metadata) ==
    emitState(persist([st EXCEPT
        !.sessions = <<newSession(st.nextId, type, title, metadata)>> \o @,
        !.activeSessionId = st.nextId,
        !.nextId = @ + 1]))

splice(ss, index) == SubSeq(ss, 1, index - 1) \o SubSeq(ss, index + 1, Len(ss))

deleteSessionKeepsActive(st, sessionId) ==
    LET index == findIndex(st.sessions, sessionId) IN
    IF index = 0 THEN st
    ELSE emitState(persist([st EXCEPT !.sessions = splice(st.sessions, index)]))

deleteSession(st, sessionId) ==
    LET index == findIndex(st.sessions, sessionId)
        rest == splice(st.sessions, index)
    IN  IF index = 0 THEN st
        ELSE emitState(persist([st EXCEPT
                !.sessions = rest,
                !.activeSessionId =
                    IF @ = sessionId
                    THEN (IF rest = <<>> THEN NoId ELSE rest[1].id)
                    ELSE @]))

\* An addMessage that puts the new message first.
addMessageInFront(st, sessionId, role, content, pending) ==
    LET i == findIndex(st.sessions, sessionId) IN
    IF i = 0 THEN st
    ELSE emitState(persist([st EXCEPT
            !.sessions[i].messages =
                <<[id |-> Len(@) + 1, role |-> role, content |-> content, pending |-> pending]>> \o @,
            !.sessions[i].updatedAt = "later"]))

storedMessage(session, role, content, pending) ==
    [id |-> Len(session.messages) + 1, role |-> role, content |-> content, pending |-> pending]

addMessage(st, sessionId, role, content, pending) ==
    LET i == findIndex(st.sessions, sessionId) IN
    IF i = 0 THEN st
    ELSE emitState(persist([st EXCEPT
            !.sessions[i].messages = Append(@, storedMessage(st.sessions[i], role, content, pending)),
            !.sessions[i].updatedAt = "later"]))

\* The id addMessage returns (NoId when it returns undefined).
addedMessageId(st, sessionId) ==
    LET i == findIndex(st.sessions, sessionId) IN
    IF i = 0 THEN NoId ELSE Len(st.sessions[i].messages) + 1

\* updates: a function from a subset of {"content", "pending"} to the new values
updateMessage(st, sessionId, messageId, updates) ==
    LET i == findIndex(st.sessions, sessionId) IN
    IF i = 0 THEN st
    ELSE LET index == findIndex(st.sessions[i].messages, messageId) IN
         IF index = 0 THEN st
         ELSE emitState(persist([st EXCEPT
                !.sessions[i].messages[index] =
                    [f \in DOMAIN @ |-> IF f \in DOMAIN updates THEN updates[f] ELSE @[f]],
                !.sessions[i].updatedAt = "later"]))

appendToMessageReversed(st, sessionId, messageId, fragment) ==
    LET i == findIndex(st.sessions, sessionId) IN
    IF i = 0 THEN st
    ELSE LET index == findIndex(st.sessions[i].messages, messageId) IN
         IF index = 0 THEN st
         ELSE emitState([st EXCEPT !.sessions[i].messages[index].content = fragment \o @,
                                   !.sessions[i].updatedAt = "later"])

\* An appendToMessage that appends in every session holding the message id.
appendToMessageAnywhere(st, sessionId, messageId, fragment) ==
    IF findIndex(st.sessions, sessionId) = 0 THEN st
    ELSE emitState([st EXCEPT !.sessions =
            [i \in 1..Len(@) |->
                LET index == findIndex(@[i].messages, messageId) IN
                IF index = 0 THEN @[i]
                ELSE [@[i] EXCEPT !.messages[index].content = @ \o fragment, !.updatedAt = "later"]]])

appendToMessage(st, sessionId, messageId, fragment) ==
    LET i == findIndex(st.sessions, sessionId) IN
    IF i = 0 THEN st
    ELSE LET index == findIndex(st.sessions[i].messages, messageId) IN
         IF index = 0 THEN st
         ELSE emitState([st EXCEPT !.sessions[i].messages[index].content = @ \o fragment,
                                   !.sessions[i].updatedAt = "later"])

\* An updateSessionStatus that does not persist.
updateSessionStatusUnpersisted(st, sessionId, status) ==
    LET i == findIndex(st.sessions, sessionId) IN
    IF i = 0 THEN st
    ELSE emitState([st EXCEPT !.sessions[i].status = status, !.sessions[i].updatedAt = "later"])

\* An updateSessionStatus that puts a session it does not find back in the list.
updateSessionStatusRecreates(st, sessionId, status) ==
    LET i == findIndex(st.sessions, sessionId) IN
    IF i = 0
    THEN emitState(persist([st EXCEPT
            !.sessions = <<[newSession(sessionId, "qa", <<>>, NoMetadata) EXCEPT !.status = status]>> \o @]))
    ELSE emitState(persist([st EXCEPT !.sessions[i].status = status, !.sessions[i].updatedAt = "later"]))

updateSessionStatus(st, sessionId, status) ==
    LET i == findIndex(st.sessions, sessionId) IN
    IF i = 0 THEN st
    ELSE emitState(persist([st EXCEPT !.sessions[i].status = status, !.sessions[i].updatedAt = "later"]))

\* metadata: a function from a subset of MetaKeys to values (shallow merge)
updateSessionMetadata(st, sessionId, metadata) ==
    LET i == findIndex(st.sessions, sessionId) IN
    IF i = 0 THEN st
    ELSE emitState(persist([st EXCEPT
            !.sessions[i].metadata =
                [k \in MetaKeys |-> IF k \in DOMAIN metadata THEN metadata[k] ELSE @[k]],
            !.sessions[i].updatedAt = "later"]))

renameSession(st, sessionId, title) ==
    LET i == findIndex(st.sessions, sessionId) IN
    IF i = 0 THEN st
    ELSE emitState(persist([st EXCEPT
            !.sessions[i].title = IF trim(title) # <<>> THEN trim(title) ELSE @,
            !.sessions[i].updatedAt = "later"]))

\* A clearAll that leaves the active id as it was.
clearAllKeepsActive(st) ==
    emitState(persist([st EXCEPT !.sessions = <<>>]))

clearAll(st) ==
    emitState(persist([st EXCEPT !.sessions = <<>>, !.activeSessionId = NoId]))

\* A constructor that makes the last loaded session the active one.
constructorLastActive(stored) ==
    LET loaded == loadSessions(stored) IN
    [sessions |-> loaded,
     activeSessionId |-> IF loaded = <<>> THEN NoId ELSE loaded[Len(loaded)].id,
     persisted |-> stored,
     emitted |-> [sessions |-> <<>>, activeSessionId |-> NoId],
     nextId |-> Len(stored) + 1]

\* The manager as constructed over a memento holding `stored`.
constructor(stored) ==
    LET loaded == loadSessions(stored) IN
    [sessions |-> loaded,
     activeSessionId |-> IF loaded = <<>> THEN NoId ELSE loaded[1].id,
     persisted |-> stored,
     emitted |-> [sessions |-> <<>>, activeSessionId |-> NoId],
     nextId |-> Len(stored) + 1]

Store == [sessions |-> sessions, activeSessionId |-> activeSessionId,
          persisted |-> persisted, emitted |-> emitted, nextId |-> nextId]

SetStore(st) ==
    /\ sessions' = st.sessions
    /\ activeSessionId' = st.activeSessionId
    /\ persisted' = st.persisted
    /\ emitted' = st.emitted
    /\ nextId' = st.nextId

(***************************************************************************)
(* Provider layer (aiService.ts)                                           *)
(*                                                                         *)
(* An HTTP exchange is a record                                            *)
(*   net      "ok" | "fail"   whether fetch resolves                       *)
(*   ok       response.ok                                                  *)
(*   json     whether response.json() parses                               *)
(*   text     the reply text of the parsed body (or the error body)        *)
(*   hasBody  whether response.body is a stream                            *)
(*   reads    the chunks reader.read() yields, in order                    *)
(*   readFail whether the read after the last chunk rejects                *)
(* A call record holds the provider's local variables between awaits,     *)
(* `log`, the callbacks invoked so far, and `fetches`, the number of       *)
(* requests it has issued with fetch.                                      *)
(***************************************************************************)
chunkSize == 20

ProviderNames == {"openai", "anthropic", "local"}

createProvider(providerName) ==
    CASE providerName = "openai" -> "openai"
      [] providerName = "anthropic" -> "anthropic"
      [] OTHER -> "local"

KeyError(kind) ==
    IF kind = "openai"
    THEN <<"OpenAI API key not set. Use \"Code Guardian: Set API Key\" to store your key securely.">>
    ELSE <<"Anthropic API key not set. Use \"Code Guardian: Set API Key\" to store your key securely.">>

ChatFailed(kind) == IF kind = "openai" THEN <<"OpenAI chat failed: ">> ELSE <<"Anthropic chat failed: ">>

RECURSIVE chunkFrom(_, _, _)
chunkFrom(text, i, size) ==
    IF i > Len(text) THEN <<>>
    ELSE <<SubSeq(text, i, IF i + size - 1 < Len(text) THEN i + size - 1 ELSE Len(text))>>
         \o chunkFrom(text, i + size, size)

chunkTextDropsTail(text) ==
    IF Len(text) <= chunkSize THEN chunkFrom(text, 1, chunkSize) ELSE <<SubSeq(text, 1, chunkSize)>>

chunkText(text) == chunkFrom(text, 1, chunkSize)

StartEvent == [e |-> "start", text |-> <<>>]
TokenEvent(fragment) == [e |-> "token", text |-> fragment]
CompleteEvent(fullText) == [e |-> "complete", text |-> fullText]

TokenEvents(fragments) == [i \in 1..Len(fragments) |-> TokenEvent(fragments[i])]

\* onStart, the chunked text through onToken, onComplete: the callback
\* sequence of the paths that hold the whole text before calling back.
chunkedCallbacks(text, hasOnToken, skipEmpty) ==
    <<StartEvent>>
    \o (IF hasOnToken /\ (text # <<>> \/ ~skipEmpty) THEN TokenEvents(chunkText(text)) ELSE <<>>)
    \o <<CompleteEvent(text)>>

\* A digit string for messages.length
DigitUnits(n) == <<ToString(n)>>

LocalReplyPrefix ==
    <<"L","o","c","a","l"," ","m","o","d","e"," ","p","l","a","c","e","h","o","l","d","e","r","."," ",
      "P","r","o","v","i","d","e","r"," ","i","s"," ","o","f","f","l","i","n","e","."," ",
      "M","e","s","s","a","g","e","s"," ","r","e","c","e","i","v","e","d",":"," ">>

LocalReply(messages) == LocalReplyPrefix \o DigitUnits(Len(messages))

(* The streamed body: units "data:", " ", "\n", "[DONE]", payload units.    *)
JsonUnits == {"J:a", "J:b", "J:", "J:fence", "J:nl", "J:sp"}

\* json.choices?.[0]?.delta?.content of a payload unit
deltaOf(unit) ==
    CASE unit = "J:a" -> <<"a">>
      [] unit = "J:b" -> <<"b">>
      [] unit = "J:fence" -> <<"<fence>">>
      [] unit = "J:nl" -> <<"\n">>
      [] unit = "J:sp" -> <<" ">>
      [] OTHER -> <<>>

RECURSIVE split(_)
split(buffer) ==
    IF \E i \in 1..Len(buffer) : buffer[i] = "\n"
    THEN LET i == CHOOSE i \in 1..Len(buffer) :
                    buffer[i] = "\n" /\ \A j \in 1..(i - 1) : buffer[j] # "\n"
         IN  <<SubSeq(buffer, 1, i - 1)>> \o split(SubSeq(buffer, i + 1, Len(buffer)))
    ELSE <<buffer>>

\* The delta one line of the stream contributes (<<>>: none).
lineDelta(line) ==
    LET trimmed == trim(line) IN
    IF trimmed = <<>> \/ Head(trimmed) # "data:" THEN <<>>
    ELSE LET payload == trim(Tail(trimmed)) IN
         IF payload = <<>> \/ payload = <<"[DONE]">> THEN <<>>
         ELSE IF Len(payload) = 1 /\ payload[1] \in JsonUnits THEN deltaOf(payload[1])
         ELSE <<>>

\* A loop over the lines that stops at the first line without a delta.
RECURSIVE lineDeltasUntilSkipped(_)
lineDeltasUntilSkipped(lines) ==
    IF lines = <<>> \/ lineDelta(Head(lines)) = <<>> THEN <<>>
    ELSE <<lineDelta(Head(lines))>> \o lineDeltasUntilSkipped(Tail(lines))

RECURSIVE lineDeltas(_)
lineDeltas(lines) ==
    IF lines = <<>> THEN <<>>
    ELSE (IF lineDelta(Head(lines)) # <<>> THEN <<lineDelta(Head(lines))>> ELSE <<>>)
         \o lineDeltas(Tail(lines))

IdleCall ==
    [pc |-> "idle", kind |-> "local", hasOnToken |-> FALSE, request |-> <<>>,
     response |-> <<>>, pos |-> 1, buffer |-> <<>>, fullText |-> <<>>, log |-> <<>>, fetches |-> 0]

\* What a provider step hands back: the call's new state, the callbacks it
\* invoked, and whether chat is still awaiting, returned value or threw value.
Step(call, events, outcome, value) ==
    [call |-> [call EXCEPT !.log = @ \o events, !.pc = IF outcome = "await" THEN @ ELSE "done"],
     events |-> events, outcome |-> outcome, value |-> value]

\* chat(): from the call to its first await (or its end).
chatBegin(prov, messages, systemPrompt, hasOnToken, response) ==
    LET kind == createProvider(prov.name)
        call == [IdleCall EXCEPT !.kind = kind, !.hasOnToken = hasOnToken, !.response = response,
                                 !.request = <<[role |-> "system", content |-> systemPrompt]>> \o messages]
    IN  CASE kind = "local" ->
                Step([call EXCEPT !.request = messages],
                     chunkedCallbacks(LocalReply(messages), hasOnToken, FALSE),
                     "return", LocalReply(messages))
          [] kind # "local" /\ prov.apiKey = <<>> ->
                Step([call EXCEPT !.request = <<>>], <<>>, "throw", KeyError(kind))
          [] OTHER -> Step([call EXCEPT !.pc = "fetch", !.fetches = @ + 1], <<>>, "await", <<>>)

\* The part of chat() that holds the whole reply text before calling back.
chatWholeText(call) ==
    LET r == call.response IN
    IF ~r.json THEN Step(call, <<>>, "throw", <<"SyntaxError">>)
    ELSE Step(call, chunkedCallbacks(r.text, call.hasOnToken, TRUE), "return", r.text)

\* fetch resolved or rejected: up to the next await (or the end).
chatFetch(call) ==
    LET r == call.response IN
    CASE r.net = "fail" -> Step(call, <<>>, "throw", <<"fetch failed">>)
      [] r.net = "ok" /\ ~r.ok -> Step(call, <<>>, "throw", ChatFailed(call.kind) \o r.text)
      [] r.net = "ok" /\ r.ok /\ call.kind = "anthropic" -> chatWholeText(call)
      [] r.net = "ok" /\ r.ok /\ call.kind = "openai" /\ ~(call.hasOnToken /\ r.hasBody) ->
            chatWholeText(call)
      [] OTHER -> Step([call EXCEPT !.pc = "read"], <<StartEvent>>, "await", <<>>)

\* One reader.read() of the streaming loop and the lines it completes.
chatRead(call) ==
    LET r == call.response IN
    IF call.pos > Len(r.reads)
    THEN IF r.readFail
         THEN Step(call, <<>>, "throw", <<"terminated">>)
         ELSE Step(call, <<CompleteEvent(call.fullText)>>, "return", call.fullText)
    ELSE LET lines == split(call.buffer \o r.reads[call.pos])
             deltas == lineDeltas(SubSeq(lines, 1, Len(lines) - 1))
         IN  Step([call EXCEPT !.pos = @ + 1,
                               !.buffer = lines[Len(lines)],
                               !.fullText = @ \o Concat(deltas)],
                  TokenEvents(deltas), "await", <<>>)

chatStep(call) == IF call.pc = "fetch" THEN chatFetch(call) ELSE chatRead(call)

\* What the local provider returns from analyzeCode and from generateFix.
LocalAnalysis == <<"[{\"type\":\"info\",\"severity\":\"low\",\"line\":1,...}]">>
LocalFix == <<"// Local mode - Connect to AI provider for fix suggestions">>

\* analyzeCode() and generateFix() that skip the check of the api key.
promptBeginKeyless(prov, operation, response) ==
    LET kind == createProvider(prov.name)
        call == [IdleCall EXCEPT !.kind = kind, !.response = response, !.request = <<operation>>]
    IN  IF kind = "local"
        THEN Step(call, <<>>, "return", IF operation = "analyzeCode" THEN LocalAnalysis ELSE LocalFix)
        ELSE Step([call EXCEPT !.pc = "fetch", !.fetches = @ + 1], <<>>, "await", <<>>)

\* analyzeCode() and generateFix() of a provider: from the call to the await
\* of fetch (or the end).  The two differ in the system text of the request.
promptBegin(prov, operation, response) ==
    LET kind == createProvider(prov.name)
        call == [IdleCall EXCEPT !.kind = kind, !.response = response, !.request = <<operation>>]
    IN  CASE kind = "local" ->
                Step(call, <<>>, "return", IF operation = "analyzeCode" THEN LocalAnalysis ELSE LocalFix)
          [] kind # "local" /\ prov.apiKey = <<>> ->
                Step([call EXCEPT !.request = <<>>], <<>>, "throw", KeyError(kind))
          [] OTHER -> Step([call EXCEPT !.pc = "fetch", !.fetches = @ + 1], <<>>, "await", <<>>)

\* analyzeCode() and generateFix() after fetch: response.json(), then
\* data.choices[0].message.content (openai) or data.content[0].text
\* (anthropic), with no look at response.ok.  shaped: the parsed body has
\* that path (the text it holds is then response.text).
promptFetch(call, shaped) ==
    LET r == call.response IN
    CASE r.net = "fail" -> Step(call, <<>>, "throw", <<"fetch failed">>)
      [] r.net = "ok" /\ ~r.json -> Step(call, <<>>, "throw", <<"SyntaxError">>)
      [] r.net = "ok" /\ r.json /\ ~shaped -> Step(call, <<>>, "throw", <<"TypeError">>)
      [] OTHER -> Step(call, <<>>, "return", r.text)

\* AIService.analyzeCode / generateFix / chat: the provider's operation,
\* whose error is logged and thrown again.
serviceBegin(prov, operation, messages, systemPrompt, hasOnToken, response) ==
    IF operation = "chat"
    THEN chatBegin(prov, messages, systemPrompt, hasOnToken, response)
    ELSE promptBegin(prov, operation, response)

serviceStep(call, operation, shaped) ==
    IF operation = "chat" THEN chatStep(call) ELSE promptFetch(call, shaped)

NoService ==
    [operation |-> "none", hasOnToken |-> FALSE, shaped |-> FALSE, frames |-> <<>>,
     call |-> IdleCall, outcome |-> "none", value |-> <<>>]

(***************************************************************************)
(* HTTP exchanges the environment may produce                              *)
(***************************************************************************)
Resp(net, ok, json, text, hasBody, reads, readFail) ==
    [net |-> net, ok |-> ok, json |-> json, text |-> text, hasBody |-> hasBody,
     reads |-> reads, readFail |-> readFail]

NetFail == Resp("fail", FALSE, FALSE, <<>>, FALSE, <<>>, FALSE)
HttpError == Resp("ok", FALSE, TRUE, <<"unauthorized">>, TRUE, <<>>, FALSE)
BadJson == Resp("ok", TRUE, FALSE, <<>>, FALSE, <<>>, FALSE)
Whole(text) == Resp("ok", TRUE, TRUE, text, FALSE, <<>>, FALSE)
Streamed(reads, readFail) == Resp("ok", TRUE, TRUE, <<>>, TRUE, reads, readFail)

Frame(payload) == <<"data:", " ", payload, "\n">>

LongText == [i \in 1..LongTextLen |-> IF i % 3 = 0 THEN "b" ELSE "a"]

AnswerTexts == {<<>>, <<"a", "b">>, LongText}

ChatReadScripts ==
    { <<Frame("J:a"), Frame("J:b") \o <<"\n">> \o Frame("[DONE]")>>,
      <<<<"data:", " ">>, <<"J:a", "\n">> \o Frame("{bad") \o <<"event: ping", "\n">> \o Frame("J:"),
        Frame("[DONE]") \o Frame("J:b")>>,
      <<Frame("J:a") \o <<"data:", " ", "J:b">>>> }

\* The exchanges a handleUserMessage call can meet: with onToken the openai
\* provider streams (or gets a response without a body), the others do not.
ChatResponses(kind) ==
    CASE kind = "local" -> {Whole(<<>>)}
      [] kind = "openai" ->
            {HttpError, Whole(<<"a", "b">>)}
            \cup {Streamed(r, FALSE) : r \in ChatReadScripts}
            \cup {Streamed(<<Frame("J:a")>>, TRUE)}
      [] OTHER -> {NetFail, HttpError, BadJson} \cup {Whole(t) : t \in AnswerTexts}

(***************************************************************************)
(* ChatController (chatController.ts)                                      *)
(***************************************************************************)
FailureText == <<"I ran into an issue answering that question. Please check your provider configuration and try again.">>
BasePrompt == <<"You are Code Guardian, a security expert assistant embedded in VS Code.">>

buildSystemPrompt(session) ==
    IF session.metadata["vulnerabilityMessage"] \notin {Absent, <<>>}
    THEN BasePrompt \o <<"\nCurrent issue: ">> \o session.metadata["vulnerabilityMessage"]
    ELSE BasePrompt

\* A history that replays every message, whatever its role.
RECURSIVE buildChatHistoryUnfiltered(_)
buildChatHistoryUnfiltered(messages) ==
    IF messages = <<>> THEN <<>>
    ELSE <<[role |-> Head(messages).role, content |-> Head(messages).content]>>
         \o buildChatHistoryUnfiltered(Tail(messages))

RECURSIVE buildChatHistory(_)
buildChatHistory(messages) ==
    IF messages = <<>> THEN <<>>
    ELSE (IF Head(messages).role \in {"user", "assistant"}
          THEN <<[role |-> Head(messages).role, content |-> Head(messages).content]>>
          ELSE <<>>) \o buildChatHistory(Tail(messages))

\* A controller whose onComplete leaves the placeholder pending.
controllerCallbackKeepsPending(st, sessionId, placeholder, ev) ==
    CASE ev.e = "token" -> appendToMessage(st, sessionId, placeholder, ev.text)
      [] ev.e = "complete" -> updateSessionStatus(st, sessionId, "idle")
      [] OTHER -> st

\* One callback of the controller applied to the store.
controllerCallback(st, sessionId, placeholder, ev) ==
    CASE ev.e = "token" -> appendToMessage(st, sessionId, placeholder, ev.text)
      [] ev.e = "complete" ->
            updateSessionStatus(updateMessage(st, sessionId, placeholder, [pending |-> FALSE]),
                                sessionId, "idle")
      [] OTHER -> st

RECURSIVE controllerCallbacksLastFirst(_, _, _, _)
controllerCallbacksLastFirst(st, sessionId, placeholder, events) ==
    IF events = <<>> THEN st
    ELSE controllerCallback(controllerCallbacksLastFirst(st, sessionId, placeholder, Tail(events)),
                            sessionId, placeholder, Head(events))

\* The controller's callbacks applied to the store, in the order invoked.
RECURSIVE controllerCallbacks(_, _, _, _)
controllerCallbacks(st, sessionId, placeholder, events) ==
    IF events = <<>> THEN st
    ELSE controllerCallbacks(controllerCallback(st, sessionId, placeholder, Head(events)),
                             sessionId, placeholder, Tail(events))

\* A catch block that keeps what was streamed into the placeholder.
controllerCatchKeepsContent(st, sessionId, placeholder) ==
    updateSessionStatus(
        updateMessage(st, sessionId, placeholder, [pending |-> FALSE]),
        sessionId, "error")

\* The catch block of handleUserMessage.
controllerCatch(st, sessionId, placeholder) ==
    updateSessionStatus(
        updateMessage(st, sessionId, placeholder, [pending |-> FALSE, content |-> FailureText]),
        sessionId, "error")

\* No history built.
NoHistory == [messages |-> <<>>, built |-> FALSE, history |-> <<>>]

FreeChat == [pc |-> "free", sessionId |-> NoId, placeholder |-> NoId, call |-> IdleCall]

\* No selectSession, renameSession or deleteSession in the last step.
NoOp ==
    [op |-> "none", sessionId |-> NoId, title |-> <<>>, before |-> [ids |-> <<>>, activeSessionId |-> NoId]]

NoCall ==
    [sessionId |-> NoId, placeholder |-> NoId, call |-> IdleCall, outcome |-> "none", value |-> <<>>,
     notice |-> <<>>]

\* What handleUserMessage shows the user through vscode.window.
SessionNotFound == <<"Chat session not found.">>
ReadOnlySession == <<"This session is read-only.">>
ChatFailedNotice == <<"Code Guardian chat failed. See logs for details.">>

\* The early returns of handleUserMessage: the notice shown, if any.
\* i: the index of the session (0: not found).
ignoredCall(i) ==
    [NoCall EXCEPT !.outcome = "ignored",
                   !.notice = IF i = 0 THEN SessionNotFound
                              ELSE IF ~sessions[i].allowUserInput THEN ReadOnlySession
                              ELSE <<>>]

\* The store and the task after a provider step of task k.
ControllerAfter(k, st, sessionId, placeholder, step) ==
    /\ SetStore(IF step.outcome = "throw"
                THEN controllerCatch(controllerCallbacks(st, sessionId, placeholder, step.events),
                                     sessionId, placeholder)
                ELSE controllerCallbacks(st, sessionId, placeholder, step.events))
    /\ chats' = [chats EXCEPT ![k] =
            IF step.outcome = "await"
            THEN [pc |-> "chat", sessionId |-> sessionId, placeholder |-> placeholder, call |-> step.call]
            ELSE [FreeChat EXCEPT !.pc = "done"]]
    /\ lastCall' = IF step.outcome = "await" THEN NoCall
                   ELSE [sessionId |-> sessionId, placeholder |-> placeholder, call |-> step.call,
                         outcome |-> step.outcome, value |-> step.value,
                         notice |-> IF step.outcome = "throw" THEN ChatFailedNotice ELSE <<>>]

UserInputs == {<<" ">>, <<" ", "q", " ">>}

\* A handleUserMessage that does not look at allowUserInput.
HandleUserMessageOfAnyType(k, sessionId, content, response) ==
    /\ chats[k].pc = "free"
    /\ \A j \in 1..(k - 1) : chats[j].pc # "free"
    /\ UNCHANGED <<provider, runs, document>>
    /\ lastOp' = NoOp /\ UNCHANGED probes
    /\ LET i == getSession(Store, sessionId) IN
       IF i = 0 \/ trim(content) = <<>>
       THEN UNCHANGED <<sessions, activeSessionId, persisted, emitted, nextId, chats>> /\ lastCall' = ignoredCall(i)
       ELSE LET st1 == addMessage(Store, sessionId, "user", trim(content), FALSE)
                placeholder == addedMessageId(st1, sessionId)
                st2 == addMessage(st1, sessionId, "assistant", <<>>, TRUE)
                st3 == updateSessionStatus(st2, sessionId, "running")
                history == buildChatHistory(st3.sessions[getSession(st3, sessionId)].messages)
            IN  ControllerAfter(k, st3, sessionId, placeholder,
                    chatBegin(provider, history, buildSystemPrompt(sessions[i]), TRUE, response))

\* handleUserMessage(sessionId, content), up to its first await.
HandleUserMessage(k, sessionId, content, response) ==
    /\ chats[k].pc = "free"
    /\ \A j \in 1..(k - 1) : chats[j].pc # "free"
    /\ UNCHANGED <<provider, runs, document>>
    /\ lastOp' = NoOp /\ UNCHANGED probes
    /\ LET i == getSession(Store, sessionId) IN
       IF i = 0 \/ ~sessions[i].allowUserInput \/ trim(content) = <<>>
       THEN UNCHANGED <<sessions, activeSessionId, persisted, emitted, nextId, chats>> /\ lastCall' = ignoredCall(i)
       ELSE LET st1 == addMessage(Store, sessionId, "user", trim(content), FALSE)
                placeholder == addedMessageId(st1, sessionId)
                st2 == addMessage(st1, sessionId, "assistant", <<>>, TRUE)
                st3 == updateSessionStatus(st2, sessionId, "running")
                history == buildChatHistory(st3.sessions[getSession(st3, sessionId)].messages)
            IN  ControllerAfter(k, st3, sessionId, placeholder,
                    chatBegin(provider, history, buildSystemPrompt(sessions[i]), TRUE, response))

\* The provider call of task k resumes after an await.
ChatResume(k) ==
    /\ chats[k].pc = "chat"
    /\ UNCHANGED <<provider, runs, document>>
    /\ lastOp' = NoOp /\ UNCHANGED probes
    /\ ControllerAfter(k, Store, chats[k].sessionId, chats[k].placeholder, chatStep(chats[k].call))

(***************************************************************************)
(* FixAgent (fixAgent.ts): text functions                                  *)
(***************************************************************************)
APPLY_ACTION == "Apply Fix"
maxAttempts == 1
ContextPadding == 5
ToolPayloadLimit == 3000

Fence == "<fence>"                    \* three backticks
WordUnits == {"a", "b", "x", "y", "json", "ts"}   \* units matching [\w-]*

\* The first position after i that holds no word unit (0: none).
afterWords(t, i) ==
    IF \E n \in (i + 1)..Len(t) : t[n] \notin WordUnits
    THEN CHOOSE n \in (i + 1)..Len(t) :
            t[n] \notin WordUnits /\ \A m \in (i + 1)..(n - 1) : t[m] \in WordUnits
    ELSE 0

\* Whether /```[\w-]*\n([\s\S]*?)```/ matches starting at position i.
fenceThen(t, n) == n # 0 /\ t[n] = "\n" /\ \E j \in (n + 1)..Len(t) : t[j] = Fence

fenceMatchAt(t, i) == t[i] = Fence /\ fenceThen(t, afterWords(t, i))

HasCodeBlock(response) == \E i \in 1..Len(response) : fenceMatchAt(response, i)

\* extractCodeBlock; defined where HasCodeBlock (undefined otherwise).
\* The block's body, from after the newline at n to the next fence.
blockBody(response, n) ==
    trim(SubSeq(response, n + 1,
            (CHOOSE j \in (n + 1)..Len(response) :
                response[j] = Fence /\ \A h \in (n + 1)..(j - 1) : response[h] # Fence) - 1))

extractCodeBlock(response) ==
    blockBody(response,
        afterWords(response,
            CHOOSE i \in 1..Len(response) :
                fenceMatchAt(response, i) /\ \A h \in 1..(i - 1) : ~fenceMatchAt(response, h)))

\* extractCodeBlock(fullText) ?? fullText.trim()
replacementOfTrimless(fullText) == IF HasCodeBlock(fullText) THEN extractCodeBlock(fullText) ELSE fullText

replacementOf(fullText) == IF HasCodeBlock(fullText) THEN extractCodeBlock(fullText) ELSE trim(fullText)

(* JSON objects of the approval agent: "{", members separated by ",", "}". *)
MemberUnits == {"decision:approve", "decision:APPROVE", "decision:[approve]", "decision:reject",
                "decision:maybe", "notes:ok", "notes: fix it ", "notes:", "notes:7"}

memberKey(u) == IF u \in {"notes:ok", "notes: fix it ", "notes:", "notes:7"} THEN "notes" ELSE "decision"

\* String(value || '').toLowerCase() of a decision member
decisionLower(u) ==
    CASE u \in {"decision:approve", "decision:APPROVE", "decision:[approve]"} -> "approve"
      [] u = "decision:reject" -> "reject"
      [] OTHER -> "maybe"

\* typeof value === 'string' ? value.trim() : '' of a notes member
notesTrimmed(u) ==
    CASE u = "notes:ok" -> <<"ok">>
      [] u = "notes: fix it " -> <<"fix it">>
      [] OTHER -> <<>>

JsonParses(candidate) ==
    /\ Len(candidate) >= 2
    /\ candidate[1] = "{"
    /\ candidate[Len(candidate)] = "}"
    /\ \/ Len(candidate) = 2
       \/ /\ Len(candidate) % 2 = 1
          /\ \A p \in 2..(Len(candidate) - 1) :
                IF p % 2 = 0 THEN candidate[p] \in MemberUnits ELSE candidate[p] = ","

\* The last member with the key (0: the key is missing).
lastMember(candidate, key) ==
    IF \E p \in 1..Len(candidate) : candidate[p] \in MemberUnits /\ memberKey(candidate[p]) = key
    THEN CHOOSE p \in 1..Len(candidate) :
            /\ candidate[p] \in MemberUnits /\ memberKey(candidate[p]) = key
            /\ \A q \in (p + 1)..Len(candidate) :
                    ~(candidate[q] \in MemberUnits /\ memberKey(candidate[q]) = key)
    ELSE 0

indexOf(t, u) ==
    IF \E i \in 1..Len(t) : t[i] = u
    THEN CHOOSE i \in 1..Len(t) : t[i] = u /\ \A j \in 1..(i - 1) : t[j] # u
    ELSE 0

lastIndexOf(t, u) ==
    IF \E i \in 1..Len(t) : t[i] = u
    THEN CHOOSE i \in 1..Len(t) : t[i] = u /\ \A j \in (i + 1)..Len(t) : t[j] # u
    ELSE 0

\* extractJsonCandidate (<<>>: undefined; an empty candidate is falsy too)
braceCandidate(response, firstBrace, lastBrace) ==
    IF firstBrace # 0 /\ lastBrace # 0 /\ lastBrace > firstBrace
    THEN trim(SubSeq(response, firstBrace, lastBrace))
    ELSE <<>>

\* block: the body of the first fenced block (<<>>: no block, or an empty one)
jsonCandidateOf(response, block) ==
    IF block # <<>> /\ Head(block) = "{"
    THEN block
    ELSE braceCandidate(response, indexOf(response, "{"), lastIndexOf(response, "}"))

extractJsonCandidate(response) ==
    jsonCandidateOf(response, IF HasCodeBlock(response) THEN extractCodeBlock(response) ELSE <<>>)

\* Units whose lower-cased text contains "approve" / "reject".
ApproveUnits == {"decision:approve", "decision:APPROVE", "decision:[approve]", "Looks good, I approve this change", "approve"}
RejectUnits == {"decision:reject", "Reject: missing null check", "reject"}

includes(t, units) == \E i \in 1..Len(t) : t[i] \in units

EmptyResponseNote == <<"Approval agent returned an empty response.">>

approvalOfLenient(trimmed, jsonCandidate) ==
    IF includes(trimmed, ApproveUnits)
    THEN [decision |-> "approve", notes |-> trimmed]
    ELSE [decision |-> "reject", notes |-> IF trimmed # <<>> THEN trimmed ELSE EmptyResponseNote]

\* The result for a candidate that parsed; d, n: its decision and notes members.
parsedApproval(jsonCandidate, d, n) ==
    [decision |-> IF d # 0 /\ decisionLower(jsonCandidate[d]) = "approve" THEN "approve" ELSE "reject",
     notes |-> IF n # 0 THEN notesTrimmed(jsonCandidate[n]) ELSE <<>>]

approvalOf(trimmed, jsonCandidate) ==
    IF jsonCandidate # <<>> /\ JsonParses(jsonCandidate)
    THEN parsedApproval(jsonCandidate, lastMember(jsonCandidate, "decision"), lastMember(jsonCandidate, "notes"))
    ELSE IF includes(trimmed, ApproveUnits) /\ ~includes(trimmed, RejectUnits)
    THEN [decision |-> "approve", notes |-> trimmed]
    ELSE [decision |-> "reject", notes |-> IF trimmed # <<>> THEN trimmed ELSE EmptyResponseNote]

parseApprovalTrimmed(trimmed) == approvalOf(trimmed, extractJsonCandidate(trimmed))

parseApprovalResponse(response) == parseApprovalTrimmed(trim(response))

(* The document: its lines (0-based line n is lines[n + 1]), the edits     *)
(* applied to it by the fix agent, and the number of saves.                *)
Max(a, b) == IF a >= b THEN a ELSE b
Min(a, b) == IF a <= b THEN a ELSE b

RECURSIVE joinLines(_)
joinLines(ls) ==
    IF ls = <<>> THEN <<>>
    ELSE IF Len(ls) = 1 THEN ls[1] ELSE ls[1] \o <<"\n">> \o joinLines(Tail(ls))

buildContext(doc, diagnostic) ==
    LET startLine == Max(0, diagnostic.start - ContextPadding)
        endLine == Min(Len(doc.lines) - 1, diagnostic.end + ContextPadding)
    IN  [snippet |-> joinLines(SubSeq(doc.lines, startLine + 1, endLine + 1)),
         startLine |-> startLine, endLine |-> endLine]

renderToolMessage(tool, payload) ==
    <<tool, " -> file\n\n[content]\n">>
    \o (IF Len(payload) > ToolPayloadLimit
        THEN SubSeq(payload, 1, ToolPayloadLimit) \o <<"\n... (truncated)">> ELSE payload)

RECURSIVE feedbackItems(_, _)
feedbackItems(revisionFeedback, index) ==
    IF index > Len(revisionFeedback) THEN <<>>
    ELSE <<"Feedback ", ToString(index), ": ">> \o revisionFeedback[index]
         \o (IF index < Len(revisionFeedback) THEN <<"\n\n">> ELSE <<>>)
         \o feedbackItems(revisionFeedback, index + 1)

RECURSIVE priorItems(_, _)
priorItems(revisionFeedback, index) ==
    IF index > Len(revisionFeedback) THEN <<>>
    ELSE <<ToString(index), ". ">> \o revisionFeedback[index]
         \o (IF index < Len(revisionFeedback) THEN <<"\n">> ELSE <<>>)
         \o priorItems(revisionFeedback, index + 1)

buildFixPromptNoFeedback(diagnostic, context, attempt, revisionFeedback) ==
    <<"File: file\nLanguage: ts\nIssue: ", diagnostic.message, "\nAttempt: ", ToString(attempt),
      "\nLines ", ToString(context.startLine + 1), "-", ToString(context.endLine + 1),
      ":\n\n\n[original_snippet]\n">>
    \o context.snippet
    \o <<"\n\n\nProvide only the secure updated snippet that resolves the issue.">>

buildFixPrompt(diagnostic, context, attempt, revisionFeedback) ==
    <<"File: file\nLanguage: ts\nIssue: ", diagnostic.message, "\nAttempt: ", ToString(attempt),
      "\nLines ", ToString(context.startLine + 1), "-", ToString(context.endLine + 1),
      ":\n\n\n[original_snippet]\n">>
    \o context.snippet
    \o (IF revisionFeedback # <<>>
        THEN <<"\n\n[approval_feedback]\n">> \o feedbackItems(revisionFeedback, 1)
             \o <<"\n\nIncorporate every item above while keeping the fix correct and secure.">>
        ELSE <<>>)
    \o <<"\n\n\nProvide only the secure updated snippet that resolves the issue.">>

buildApprovalPrompt(diagnostic, context, proposal, attempt, revisionFeedback) ==
    <<"You will review a proposed fix for a security issue.\nFile: file\nLanguage: ts\nIssue: ",
      diagnostic.message, "\nAttempt: ", ToString(attempt)>>
    \o (IF revisionFeedback # <<>>
        THEN <<"\n\nPrevious approval feedback:\n">> \o priorItems(revisionFeedback, 1)
        ELSE <<>>)
    \o <<"\n\n\nOriginal snippet:\n">> \o context.snippet
    \o <<"\n\n\nProposed replacement:\n">> \o proposal.replacement
    \o <<"\n\n\nDecide whether to approve the fix.">>

FixSystemPrompt == <<"You are a senior security engineer. Return only the corrected code snippet that should replace the provided block.">>
ApprovalSystemPrompt == <<"You are the approval agent for a secure coding assistant.">>

(***************************************************************************)
(* FixAgent.run                                                            *)
(* A run record holds run()'s local variables between awaits; proposeCount,*)
(* reviewCount and prompts record the requestFix / reviewFix calls made.   *)
(***************************************************************************)
NoProposal == [raw |-> <<>>, replacement |-> <<>>]
NoApproval == [decision |-> "undefined", notes |-> <<>>]
NoReview == [response |-> <<>>, approval |-> NoApproval]
NoContext == [snippet |-> <<>>, startLine |-> 0, endLine |-> 0]
NoDiagnostic == [start |-> 0, end |-> 0, message |-> <<>>, code |-> Absent]
NoMemento == [stored |-> <<>>, constructed |-> TRUE]
NoFixContext == [document |-> [lines |-> <<>>], diagnostic |-> NoDiagnostic, built |-> FALSE, context |-> NoContext]

FreeRun ==
    [pc |-> "free", sessionId |-> NoId, diagnostic |-> NoDiagnostic, context |-> NoContext,
     attempt |-> 0, revisionFeedback |-> <<>>, proposal |-> NoProposal, approval |-> NoApproval,
     assistantMessage |-> NoId, fullText |-> <<>>, call |-> IdleCall,
     outcome |-> "none", proposeCount |-> 0, reviewCount |-> 0, prompts |-> <<>>, userChoice |-> "none",
     edited |-> FALSE]

Pair(st, run) == [st |-> st, run |-> run]

\* A catch block that sets the session idle.
runCatchBackToIdle(st, run, message) ==
    Pair(updateSessionStatus(
            addMessage(st, run.sessionId, "agent", <<"Failed to complete the fix: ">> \o message, FALSE),
            run.sessionId, "idle"),
         [run EXCEPT !.pc = "done", !.outcome = "error"])

\* A catch block that leaves the session's status as it is.
runCatchLeavesRunning(st, run, message) ==
    Pair(addMessage(st, run.sessionId, "agent", <<"Failed to complete the fix: ">> \o message, FALSE),
         [run EXCEPT !.pc = "done", !.outcome = "error"])

\* A catch block whose message leaves out the cause.
runCatchWithoutCause(st, run, message) ==
    Pair(updateSessionStatus(
            addMessage(st, run.sessionId, "agent", <<"Failed to complete the fix.">>, FALSE),
            run.sessionId, "error"),
         [run EXCEPT !.pc = "done", !.outcome = "error"])

\* The catch block of run().
runCatch(st, run, message) ==
    Pair(updateSessionStatus(
            addMessage(st, run.sessionId, "agent", <<"Failed to complete the fix: ">> \o message, FALSE),
            run.sessionId, "error"),
         [run EXCEPT !.pc = "done", !.outcome = "error"])

\* requestFix's callbacks applied in the order invoked.
RECURSIVE requestCallbacks(_, _, _)
requestCallbacks(st, run, events) ==
    IF events = <<>> THEN Pair(st, run)
    ELSE LET ev == Head(events) IN
         CASE ev.e = "token" ->
                requestCallbacks(appendToMessage(st, run.sessionId, run.assistantMessage, ev.text),
                                 [run EXCEPT !.fullText = @ \o ev.text], Tail(events))
           [] ev.e = "complete" ->
                requestCallbacks(updateMessage(st, run.sessionId, run.assistantMessage, [pending |-> FALSE]),
                                 run, Tail(events))
           [] OTHER -> requestCallbacks(st, run, Tail(events))

\* run() after the while loop, up to the confirmation prompt.
afterLoop(st, run) ==
    IF run.proposal = NoProposal
    THEN runCatch(st, run, <<"No fix proposal was generated.">>)
    ELSE IF run.approval.decision # "approve"
    THEN Pair(updateSessionStatus(
                addMessage(st, run.sessionId, "agent",
                    <<"Approval agent could not sign off on a safe fix after 3 attempts. Please review the issue manually.">>,
                    FALSE),
                run.sessionId, "completed"),
              [run EXCEPT !.pc = "done", !.outcome = "rejected"])
    ELSE Pair(updateSessionMetadata(
                updateSessionStatus(st, run.sessionId, "idle"),
                run.sessionId,
                [k \in {"fixProposal", "approvalNotes"} |->
                    IF k = "fixProposal" THEN run.proposal.raw ELSE run.approval.notes]),
              [run EXCEPT !.pc = "confirm"])

RECURSIVE loopHead(_, _, _, _)

\* The loop after a rejection: feedback pushed, then break or go round again.
afterReject(st, run, fixResponse, reviewResponse) ==
    IF run.attempt >= maxAttempts THEN afterLoop(st, run)
    ELSE loopHead(
            addMessage(st, run.sessionId, "agent",
                <<"Approval agent requested changes. Updating instructions for the fix provider.">>, FALSE),
            run, fixResponse, reviewResponse)

\* reviewFix's message for the parsed approval, and the loop's test of it.
afterApproval(st, run, approval, fixResponse, reviewResponse) ==
    IF approval.decision = "approve"
    THEN afterLoop(
            addMessage(st, run.sessionId, "assistant",
                <<"Approval agent: ">>
                \o (IF approval.notes # <<>> THEN approval.notes
                    ELSE <<"The fix looks good. Ready to apply.">>), FALSE),
            [run EXCEPT !.approval = approval])
    ELSE afterReject(
            addMessage(st, run.sessionId, "assistant",
                <<"Approval agent requested changes: ">>
                \o (IF approval.notes # <<>> THEN approval.notes
                    ELSE <<"Please adjust the fix before applying.">>), FALSE),
            [run EXCEPT !.approval = approval,
                        !.revisionFeedback =
                            Append(@, IF approval.notes # <<>> THEN approval.notes
                                      ELSE <<"Approval agent requires improvements but did not provide specific notes.">>)],
            fixResponse, reviewResponse)

\* reviewFix after a provider step, and the rest of the loop iteration.
afterReview(st, run, step, fixResponse, reviewResponse) ==
    CASE step.outcome = "throw" -> runCatch(st, [run EXCEPT !.call = step.call], step.value)
      [] step.outcome = "await" -> Pair(st, [run EXCEPT !.call = step.call, !.pc = "review"])
      [] OTHER -> afterApproval(st, [run EXCEPT !.call = step.call], parseApprovalResponse(step.value),
                                fixResponse, reviewResponse)

\* reviewFix, from its start to its first await.
reviewWith(st, run, prompt, fixResponse, reviewResponse) ==
    afterReview(st, [run EXCEPT !.reviewCount = @ + 1],
        chatBegin(provider, <<[role |-> "user", content |-> prompt]>>, ApprovalSystemPrompt, FALSE, reviewResponse),
        fixResponse, reviewResponse)

beginReview(st, run, fixResponse, reviewResponse) ==
    reviewWith(addMessage(st, run.sessionId, "agent", <<"Approval agent reviewing proposed fix...">>, FALSE),
        run,
        buildApprovalPrompt(run.diagnostic, run.context, run.proposal, run.attempt, run.revisionFeedback),
        fixResponse, reviewResponse)

\* requestFix once chat() has returned: the replacement, then reviewFix.
afterReply(st, run, replacement, fixResponse, reviewResponse) ==
    IF replacement = <<>>
    THEN runCatch(st, run, <<"Provider returned an empty fix.">>)
    ELSE beginReview(st, [run EXCEPT !.proposal = [raw |-> run.fullText, replacement |-> replacement]],
                     fixResponse, reviewResponse)

\* cb: the store and the run after the step's callbacks.
afterCallbacks(cb, step, fixResponse, reviewResponse) ==
    CASE step.outcome = "throw" -> runCatch(cb.st, cb.run, step.value)
      [] step.outcome = "await" -> Pair(cb.st, [cb.run EXCEPT !.pc = "request"])
      [] OTHER -> afterReply(cb.st, cb.run, replacementOf(cb.run.fullText), fixResponse, reviewResponse)

\* requestFix after a provider step, and on into the rest of the iteration.
afterRequest(st, run, step, fixResponse, reviewResponse) ==
    afterCallbacks(requestCallbacks(st, [run EXCEPT !.call = step.call], step.events),
                   step, fixResponse, reviewResponse)

\* requestFix with its placeholder added, up to the first await of chat().
requestWith(st, run, assistantMessage, prompt, fixResponse, reviewResponse) ==
    IF assistantMessage = NoId
    THEN runCatch(st, run, <<"Failed to append provider response message.">>)
    ELSE afterRequest(st,
            [run EXCEPT !.assistantMessage = assistantMessage, !.fullText = <<>>,
                        !.proposeCount = @ + 1, !.prompts = Append(@, prompt)],
            chatBegin(provider, <<[role |-> "user", content |-> prompt]>>, FixSystemPrompt, TRUE, fixResponse),
            fixResponse, reviewResponse)

placeholderIn(st, run, fixResponse, reviewResponse) ==
    requestWith(addMessage(st, run.sessionId, "assistant", <<>>, TRUE), run,
        addedMessageId(st, run.sessionId),
        buildFixPrompt(run.diagnostic, run.context, run.attempt, run.revisionFeedback),
        fixResponse, reviewResponse)

\* requestFix, from its start to its first await.
beginRequest(st, run, fixResponse, reviewResponse) ==
    placeholderIn(
        addMessage(st, run.sessionId, "agent",
            <<"Requesting secure fix from provider">>
            \o (IF run.attempt > 1 THEN <<" (attempt ", ToString(run.attempt), ")">> ELSE <<>>),
            FALSE),
        run, fixResponse, reviewResponse)

\* The while loop's test and the start of one iteration.
loopHead(st, run, fixResponse, reviewResponse) ==
    IF run.attempt >= maxAttempts THEN afterLoop(st, run)
    ELSE beginRequest(
            IF run.attempt + 1 > 1
            THEN addMessage(st, run.sessionId, "agent",
                    <<"Revision attempt ", ToString(run.attempt + 1), " requested based on approval feedback.">>, FALSE)
            ELSE st,
            [run EXCEPT !.attempt = @ + 1], fixResponse, reviewResponse)

(* Replies and streams the environment may produce for a fix run. *)
FixTexts == {<<"x">>, <<" ">>, <<Fence, "ts", "\n", "y", "\n", Fence>>}

FixReadScripts ==
    { <<Frame("J:a"), Frame("J:b")>>,
      <<Frame("J:fence") \o Frame("J:nl") \o Frame("J:a"), Frame("J:nl") \o Frame("J:fence") \o Frame("[DONE]")>>,
      <<Frame("J:sp")>> }

ReviewTexts ==
    { <<"{", "decision:approve", ",", "notes:ok", "}">>,
      <<"{", "decision:reject", ",", "notes: fix it ", "}">>,
      <<"{", "decision:reject", "}">>,
      <<"Looks good, I approve this change">> }

Unused == Whole(<<>>)

\* requestFix passes onToken, reviewFix passes no callbacks.
FixResponses(kind) ==
    CASE kind = "local" -> {Unused}
      [] kind = "openai" ->
            {HttpError} \cup {Streamed(r, FALSE) : r \in FixReadScripts}
            \cup {Streamed(<<Frame("J:a")>>, TRUE)}
      [] OTHER -> {HttpError} \cup {Whole(t) : t \in FixTexts}

ReviewResponses(kind) ==
    IF kind = "local" THEN {Unused} ELSE {HttpError} \cup {Whole(t) : t \in ReviewTexts}

Diagnostics ==
    { [start |-> 0, end |-> 0, message |-> <<"eval">>, code |-> <<"CWE-95">>],
      [start |-> 6, end |-> 9, message |-> <<"sql">>, code |-> Absent] }

SetRun(r, pair) ==
    /\ SetStore(pair.st)
    /\ runs' = [runs EXCEPT ![r] = pair.run]

\* run(document, diagnostic), up to its first await.
RunStart(r, diagnostic) ==
    /\ runs[r].pc = "free"
    /\ \A j \in 1..(r - 1) : runs[j].pc # "free"
    /\ nextId <= MaxSessions
    /\ UNCHANGED <<provider, chats, document>>
    /\ lastCall' = NoCall /\ lastOp' = NoOp /\ UNCHANGED probes
    /\ LET sessionId == nextId
           st1 == createSession(Store, "fix", <<"Fix file:", ToString(diagnostic.start + 1)>>,
                    [NoMetadata EXCEPT !["filePath"] = <<"file">>,
                                       !["diagnosticCode"] = diagnostic.code,
                                       !["vulnerabilityMessage"] = diagnostic.message])
           st2 == updateSessionStatus(st1, sessionId, "running")
           st3 == addMessage(st2, sessionId, "agent",
                    <<"Starting AI-assisted fix for file at line ", ToString(diagnostic.start + 1)>>, FALSE)
           st4 == addMessage(st3, sessionId, "agent", <<"Issue detected: ">> \o diagnostic.message, FALSE)
           context == buildContext(document, diagnostic)
           st5 == addMessage(st4, sessionId, "agent", <<"Gathering code context with read_file tool...">>, FALSE)
           st6 == addMessage(st5, sessionId, "tool", renderToolMessage("read_file", context.snippet), FALSE)
           run == [FreeRun EXCEPT !.sessionId = sessionId, !.diagnostic = diagnostic, !.context = context]
       IN  \E fixResponse \in FixResponses(createProvider(provider.name)) :
                SetRun(r, loopHead(st6, run, fixResponse, Unused))

\* The provider call of requestFix resumes after an await.
RunRequestStep(r) ==
    /\ runs[r].pc = "request"
    /\ UNCHANGED <<provider, chats, document>>
    /\ lastCall' = NoCall /\ lastOp' = NoOp /\ UNCHANGED probes
    /\ \E reviewResponse \in ReviewResponses(createProvider(provider.name)) :
            SetRun(r, afterRequest(Store, runs[r], chatStep(runs[r].call), Unused, reviewResponse))

\* The provider call of reviewFix resumes after an await.
RunReviewStep(r) ==
    /\ runs[r].pc = "review"
    /\ UNCHANGED <<provider, chats, document>>
    /\ lastCall' = NoCall /\ lastOp' = NoOp /\ UNCHANGED probes
    /\ \E fixResponse \in FixResponses(createProvider(provider.name)) :
            SetRun(r, afterReview(Store, runs[r], chatStep(runs[r].call), fixResponse, Unused))

UserChoices == {APPLY_ACTION, "Cancel", "undefined"}

\* showInformationMessage resolves with the user's choice.
\* A run() that treats a prompt not answered with Apply Fix as a failure.
RunConfirmOrFail(r, userChoice) ==
    /\ runs[r].pc = "confirm"
    /\ UNCHANGED <<provider, chats, document>>
    /\ lastCall' = NoCall /\ lastOp' = NoOp /\ UNCHANGED probes
    /\ LET run == [runs[r] EXCEPT !.userChoice = userChoice] IN
       IF userChoice # APPLY_ACTION
       THEN SetRun(r, runCatch(Store, run, <<"Fix application cancelled by user.">>))
       ELSE SetRun(r, Pair(addMessage(Store, run.sessionId, "agent",
                                <<"Applying changes with write_file tool...">>, FALSE),
                           [run EXCEPT !.pc = "apply"]))

RunConfirm(r, userChoice) ==
    /\ runs[r].pc = "confirm"
    /\ UNCHANGED <<provider, chats, document>>
    /\ lastCall' = NoCall /\ lastOp' = NoOp /\ UNCHANGED probes
    /\ LET run == [runs[r] EXCEPT !.userChoice = userChoice] IN
       IF userChoice # APPLY_ACTION
       THEN SetRun(r, Pair(updateSessionStatus(
                                addMessage(Store, run.sessionId, "agent", <<"Fix application cancelled by user.">>, FALSE),
                                run.sessionId, "completed"),
                           [run EXCEPT !.pc = "done", !.outcome = "cancelled"]))
       ELSE SetRun(r, Pair(addMessage(Store, run.sessionId, "agent",
                                <<"Applying changes with write_file tool...">>, FALSE),
                           [run EXCEPT !.pc = "apply"]))

\* edit.replace(document.uri, range, replacement) applied to the document
replaceRangeWholeDocument(doc, startLine, endLine, replacement) ==
    [doc EXCEPT !.lines = split(replacement),
                !.edits = Append(@, [startLine |-> 0, endLine |-> Len(doc.lines) - 1, text |-> replacement])]

replaceRange(doc, startLine, endLine, replacement) ==
    [doc EXCEPT !.lines = SubSeq(@, 1, startLine) \o split(replacement) \o SubSeq(@, endLine + 2, Len(@)),
                !.edits = Append(@, [startLine |-> startLine, endLine |-> endLine, text |-> replacement])]

\* applyFix: vscode.workspace.applyEdit resolves.
RunApplyEdit(r, applied) ==
    /\ runs[r].pc = "apply"
    /\ UNCHANGED <<provider, chats>>
    /\ lastCall' = NoCall /\ lastOp' = NoOp /\ UNCHANGED probes
    /\ IF ~applied
       THEN /\ SetRun(r, runCatch(Store, runs[r], <<"VS Code rejected the workspace edit.">>))
            /\ UNCHANGED document
       ELSE /\ document' = replaceRange(document, runs[r].context.startLine, runs[r].context.endLine,
                                        runs[r].proposal.replacement)
            /\ SetRun(r, Pair(Store, [runs[r] EXCEPT !.pc = "save", !.edited = TRUE]))

\* applyFix: document.save() resolves; then the rest of run().
RunSave(r, saved) ==
    /\ runs[r].pc = "save"
    /\ UNCHANGED <<provider, chats>>
    /\ lastCall' = NoCall /\ lastOp' = NoOp /\ UNCHANGED probes
    /\ document' = [document EXCEPT !.saves = IF saved THEN @ + 1 ELSE @]
    /\ LET sessionId == runs[r].sessionId
           st1 == addMessage(Store, sessionId, "tool",
                    renderToolMessage("write_file", runs[r].proposal.replacement), FALSE)
           st2 == addMessage(st1, sessionId, "agent", <<"Fix applied. Please review and run your tests.">>, FALSE)
       IN  SetRun(r, Pair(updateSessionStatus(st2, sessionId, "completed"),
                          [runs[r] EXCEPT !.pc = "done", !.outcome = "applied"]))

\* An awaited call of run() after the loop (the prompt, applyEdit, save)
\* rejects: the catch block of run() takes over.
RunAwaitThrows(r) ==
    /\ runs[r].pc \in {"confirm", "apply", "save"}
    /\ UNCHANGED <<provider, chats, document>>
    /\ lastCall' = NoCall /\ lastOp' = NoOp /\ UNCHANGED probes
    /\ SetRun(r, runCatch(Store, runs[r], <<"rejected">>))

\* Every step that resumes run r after an await.
RunResume(r) ==
    \/ RunRequestStep(r)
    \/ RunReviewStep(r)
    \/ \E userChoice \in UserChoices : RunConfirm(r, userChoice)
    \/ \E applied \in BOOLEAN : RunApplyEdit(r, applied)
    \/ \E saved \in BOOLEAN : RunSave(r, saved)
    \/ RunAwaitThrows(r)

(***************************************************************************)
(* ChatViewProvider.handleWebviewMessage: the user's intents               *)
(***************************************************************************)
Titles == {<<" ">>, <<" ", "t", " ">>}

StoreOp(st) == SetStore(st) /\ UNCHANGED <<provider, chats, runs, document, review, chatHistory, service, fixContext, memento>> /\ lastCall' = NoCall

NewSession ==
    /\ nextId <= MaxSessions
    /\ StoreOp(createSession(Store, "qa", defaultTitleForType("qa"), NoMetadata))
    /\ lastOp' = NoOp

SelectSession(sessionId) ==
    /\ StoreOp(setActiveSession(Store, sessionId))
    /\ lastOp' = [NoOp EXCEPT !.op = "select", !.sessionId = sessionId]

DeleteSession(sessionId) ==
    /\ StoreOp(deleteSession(Store, sessionId))
    /\ lastOp' = [NoOp EXCEPT !.op = "delete", !.sessionId = sessionId,
                              !.before = [ids |-> [i \in 1..Len(sessions) |-> sessions[i].id],
                                          activeSessionId |-> activeSessionId]]

RenameSession(sessionId, title) ==
    /\ StoreOp(renameSession(Store, sessionId, title))
    /\ lastOp' = [NoOp EXCEPT !.op = "rename", !.sessionId = sessionId, !.title = title]

\* clearAll() is a public method of the manager, called with no argument.
ClearAll == StoreOp(clearAll(Store)) /\ lastOp' = NoOp

(***************************************************************************)
(* The system                                                              *)
(***************************************************************************)
StoredQa(missing) == [s |-> newSession(1, "qa", <<"old">>, NoMetadata), missing |-> missing]
StoredFix(missing) ==
    [s |-> [newSession(1, "fix", <<"old fix">>, NoMetadata) EXCEPT !.status = "completed"],
     missing |-> missing]

\* What the memento may hold at activation: nothing, or sessions written
\* by this store or by an earlier schema that lacked some fields.
StoredChoices ==
    { <<>>, <<StoredQa({})>>, <<StoredQa(OptionalFields)>>, <<StoredFix({"allowUserInput"})>> }

Providers ==
    { [name |-> "local", apiKey |-> <<>>] }
    \cup { [name |-> n, apiKey |-> k] : n \in {"openai", "anthropic"}, k \in {<<>>, <<"sk">>} }

SessionIds == 1..MaxSessions

Init ==
    /\ \E stored \in StoredChoices :
            /\ sessions = constructor(stored).sessions
            /\ activeSessionId = constructor(stored).activeSessionId
            /\ persisted = constructor(stored).persisted
            /\ emitted = constructor(stored).emitted
            /\ nextId = constructor(stored).nextId
    /\ provider \in Providers
    /\ chats = [k \in 1..MaxChats |-> FreeChat]
    /\ runs = [r \in 1..MaxRuns |-> FreeRun]
    /\ document = [lines |-> [i \in 1..LineCount |-> <<ToString(i)>>], edits |-> <<>>, saves |-> 0]
    /\ lastCall = NoCall
    /\ lastOp = NoOp
    /\ review = NoReview
    /\ chatHistory = NoHistory
    /\ service = NoService
    /\ fixContext = NoFixContext
    /\ memento = NoMemento

\* The user's intents that add and remove sessions.
NextSessions ==
    \/ NewSession
    \/ \E sessionId \in SessionIds : DeleteSession(sessionId)
    \/ ClearAll

\* The user's intents from the chat view.
NextView ==
    \/ NextSessions
    \/ \E sessionId \in SessionIds : SelectSession(sessionId)
    \/ \E sessionId \in SessionIds, title \in Titles : RenameSession(sessionId, title)

\* Questions sent from the chat view and the provider calls answering them.
NextChat ==
    \/ \E k \in 1..MaxChats, sessionId \in SessionIds, content \in UserInputs :
            \E response \in ChatResponses(createProvider(provider.name)) :
                HandleUserMessage(k, sessionId, content, response)
    \/ \E k \in 1..MaxChats : ChatResume(k)

\* Fix runs started from a diagnostic.
NextFix ==
    \/ \E r \in 1..MaxRuns, diagnostic \in Diagnostics : RunStart(r, diagnostic)
    \/ \E r \in 1..MaxRuns : RunRequestStep(r)
    \/ \E r \in 1..MaxRuns : RunReviewStep(r)
    \/ \E r \in 1..MaxRuns, userChoice \in UserChoices : RunConfirm(r, userChoice)
    \/ \E r \in 1..MaxRuns, applied \in BOOLEAN : RunApplyEdit(r, applied)
    \/ \E r \in 1..MaxRuns, saved \in BOOLEAN : RunSave(r, saved)
    \/ \E r \in 1..MaxRuns : RunAwaitThrows(r)

Next == NextView \/ NextChat \/ NextFix

Spec == Init /\ [][Next]_vars

\* Questions and their provider calls while sessions come and go; no fix
\* run is started and no session is selected or renamed.
SpecChat == Init /\ [][NextSessions \/ NextChat]_vars

\* The chat view while fix runs go on, no question sent.
SpecFix == Init /\ [][NextView \/ NextFix]_vars

\* One question sent from the chat view and its provider call.
NextSubmission ==
    \/ \E sessionId \in SessionIds, content \in UserInputs :
            \E response \in ChatResponses(createProvider(provider.name)) :
                HandleUserMessage(1, sessionId, content, response)
    \/ ChatResume(1)

\* A question and a fix run in flight at once, their awaits resuming in
\* every order; the chat view sends no other intent.
SpecConcurrent == Init /\ [][NextSubmission \/ NextFix]_vars

\* Run r is suspended at an await: exactly then RunResume(r) is enabled,
\* since the steps of RunResume have no guard but the run's position.
RunAwaiting(r) == runs[r].pc \notin {"free", "done"}

\* SpecFix where every awaited call of a run eventually returns or throws.
\* The condition is WF_vars(RunResume(r)) written out with RunAwaiting(r)
\* for ENABLED RunResume(r); the steps of RunResume(r) are the steps that
\* change a suspended run.
SpecFixFair ==
    SpecFix /\ \A r \in 1..MaxRuns : []<>(~RunAwaiting(r)) \/ []<><<RunAwaiting(r) /\ runs'[r] # runs[r]>>_vars

(* The approval parser on its own: responses of the approval agent built   *)
(* from a core (a JSON object, a broken one, or prose), optionally inside  *)
(* a fenced block, with text before and after.                             *)
MaxMembers == 2      \* members of a JSON object in a response

RECURSIVE Members(_)
Members(n) ==
    IF n = 0 THEN {<<>>}
    ELSE Members(n - 1)
         \cup {<<m>> : m \in MemberUnits}
         \cup {ms \o <<",", m>> : ms \in Members(n - 1) \ {<<>>}, m \in MemberUnits}

ReviewCores ==
    {<<"{">> \o ms \o <<"}">> : ms \in Members(MaxMembers)}
    \cup {<<"{", m>> : m \in {"decision:approve", "decision:reject"}}
    \cup {<<"{", "decision:approve", "notes:ok", "}">>, <<"{", "x", "}">>, <<"{", ",", "}">>}
    \cup {<<>>, <<"x">>, <<"Looks good, I approve this change">>, <<"Reject: missing null check">>,
          <<"approve", " ", "reject">>}

Fenced(core) == {core, <<Fence, "\n">> \o core \o <<"\n", Fence>>, <<Fence, "json", "\n">> \o core \o <<Fence>>}

ReviewInputs ==
    {before \o body \o after :
        before \in {<<>>, <<" ">>, <<"approve", " ">>, <<"{">>},
        body \in UNION {Fenced(core) : core \in ReviewCores},
        after \in {<<>>, <<"\n">>, <<" ", "reject">>, <<"}">>}}

InitReview ==
    /\ sessions = constructor(<<>>).sessions
    /\ activeSessionId = constructor(<<>>).activeSessionId
    /\ persisted = constructor(<<>>).persisted
    /\ emitted = constructor(<<>>).emitted
    /\ nextId = constructor(<<>>).nextId
    /\ provider = [name |-> "local", apiKey |-> <<>>]
    /\ chats = [k \in 1..MaxChats |-> FreeChat]
    /\ runs = [r \in 1..MaxRuns |-> FreeRun]
    /\ document = [lines |-> [i \in 1..LineCount |-> <<ToString(i)>>], edits |-> <<>>, saves |-> 0]
    /\ lastCall = NoCall
    /\ lastOp = NoOp
    /\ \E response \in ReviewInputs : review = [response |-> response, approval |-> NoApproval]
    /\ chatHistory = NoHistory
    /\ service = NoService
    /\ fixContext = NoFixContext
    /\ memento = NoMemento

\* const approval = parseApprovalResponse(response)
ParseApprovalResponse ==
    /\ review.approval = NoApproval
    /\ review' = [review EXCEPT !.approval = parseApprovalResponse(review.response)]
    /\ UNCHANGED <<sessions, activeSessionId, persisted, emitted, nextId, provider, chats, runs, document,
                   lastCall, lastOp, chatHistory, service, fixContext, memento>>

SpecReview == InitReview /\ [][ParseApprovalResponse]_vars

(* buildChatHistory on its own: sessions of up to MaxHistory messages of   *)
(* any role.                                                               *)
MaxHistory == 3      \* messages of a session whose history is built

MessageChoices ==
    [role : ChatMessageRole, content : {<<>>, <<"q">>}, pending : BOOLEAN]

StoredMessages ==
    UNION {[1..n -> MessageChoices] : n \in 0..MaxHistory}

\* The messages as the store holds them: ids in the order added.
withIds(choices) ==
    [n \in 1..Len(choices) |->
        [id |-> n, role |-> choices[n].role, content |-> choices[n].content, pending |-> choices[n].pending]]

InitHistory ==
    /\ sessions = constructor(<<>>).sessions
    /\ activeSessionId = constructor(<<>>).activeSessionId
    /\ persisted = constructor(<<>>).persisted
    /\ emitted = constructor(<<>>).emitted
    /\ nextId = constructor(<<>>).nextId
    /\ provider = [name |-> "local", apiKey |-> <<>>]
    /\ chats = [k \in 1..MaxChats |-> FreeChat]
    /\ runs = [r \in 1..MaxRuns |-> FreeRun]
    /\ document = [lines |-> [i \in 1..LineCount |-> <<ToString(i)>>], edits |-> <<>>, saves |-> 0]
    /\ lastCall = NoCall
    /\ lastOp = NoOp
    /\ review = NoReview
    /\ \E choices \in StoredMessages :
            chatHistory = [messages |-> withIds(choices), built |-> FALSE, history |-> <<>>]
    /\ service = NoService
    /\ fixContext = NoFixContext
    /\ memento = NoMemento

\* const chatHistory = this.buildChatHistory(session)
BuildChatHistory ==
    /\ ~chatHistory.built
    /\ chatHistory' = [chatHistory EXCEPT !.built = TRUE, !.history = buildChatHistory(chatHistory.messages)]
    /\ UNCHANGED <<sessions, activeSessionId, persisted, emitted, nextId, provider, chats, runs, document,
                   lastCall, lastOp, review, service, fixContext, memento>>

SpecHistory == InitHistory /\ [][BuildChatHistory]_vars

(* The operations of AIService on their own: one call of analyzeCode,      *)
(* generateFix or chat on each provider, with and without an api key,      *)
(* against the exchanges a server can produce.  A streamed body is a       *)
(* sequence of up to MaxFrames frames, delivered in one read, in one read  *)
(* per frame, or cut inside its first frame.                               *)
MaxFrames == 3       \* frames of a streamed body

FrameChoices ==
    {Frame("J:a"), Frame("J:b"), Frame("J:"), Frame("{bad"), Frame("[DONE]"),
     <<"event: ping", "\n">>, <<" ", "\n">>, <<"data:", "\n">>}

\* A data frame that the end of the body follows, with no newline between.
UnterminatedFrames == {<<"data:", " ", "J:a">>, <<"data:", " ", "J:b">>}

TerminatedSequences(max) == UNION {[1..n -> FrameChoices] : n \in 0..max}

\* Bodies of up to MaxFrames frames; the last may lack its newline.
FrameSequences ==
    TerminatedSequences(MaxFrames)
    \cup {Append(frames, last) : frames \in TerminatedSequences(MaxFrames - 1), last \in UnterminatedFrames}

\* The ways the body of `frames` arrives through reader.read().
ReadsOf(frames) ==
    {frames}
    \cup (IF frames = <<>> THEN {} ELSE {<<Concat(frames)>>})
    \cup (IF Len(Concat(frames)) > 2
          THEN {<<SubSeq(Concat(frames), 1, 2), SubSeq(Concat(frames), 3, Len(Concat(frames)))>>}
          ELSE {})

\* An error status with a body that is no JSON.
HttpErrorText == Resp("ok", FALSE, FALSE, <<"Bad Gateway">>, TRUE, <<>>, FALSE)

PlainResponses == {NetFail, HttpError, HttpErrorText, BadJson} \cup {Whole(t) : t \in AnswerTexts}

\* The streamed chats whose body is `frames`.
StreamedInputs(frames) ==
    {[NoService EXCEPT !.operation = "chat", !.hasOnToken = hasOnToken, !.frames = frames,
                       !.call.response = Streamed(reads, readFail)] :
        hasOnToken \in BOOLEAN, readFail \in BOOLEAN, reads \in ReadsOf(frames)}

ServiceInputs ==
    {[NoService EXCEPT !.operation = operation, !.shaped = shaped, !.call.response = response] :
        operation \in {"analyzeCode", "generateFix"}, shaped \in BOOLEAN, response \in PlainResponses}
    \cup {[NoService EXCEPT !.operation = "chat", !.hasOnToken = hasOnToken, !.call.response = response] :
            hasOnToken \in BOOLEAN, response \in PlainResponses}
    \cup UNION {StreamedInputs(frames) : frames \in FrameSequences}

InitService ==
    /\ sessions = constructor(<<>>).sessions
    /\ activeSessionId = constructor(<<>>).activeSessionId
    /\ persisted = constructor(<<>>).persisted
    /\ emitted = constructor(<<>>).emitted
    /\ nextId = constructor(<<>>).nextId
    /\ provider \in Providers
    /\ chats = [k \in 1..MaxChats |-> FreeChat]
    /\ runs = [r \in 1..MaxRuns |-> FreeRun]
    /\ document = [lines |-> [i \in 1..LineCount |-> <<ToString(i)>>], edits |-> <<>>, saves |-> 0]
    /\ lastCall = NoCall
    /\ lastOp = NoOp
    /\ review = NoReview
    /\ chatHistory = NoHistory
    /\ service \in ServiceInputs
    /\ fixContext = NoFixContext
    /\ memento = NoMemento

\* The operation after a step of its provider.
serviceAfter(step) ==
    [service EXCEPT !.call = step.call, !.outcome = step.outcome, !.value = step.value]

\* this.aiService.analyzeCode(prompt) / generateFix(prompt) / chat(...), up
\* to the first await.
ServiceCall ==
    /\ service.outcome = "none"
    /\ service' = serviceAfter(serviceBegin(provider, service.operation, <<[role |-> "user", content |-> <<"q">>]>>,
                                            BasePrompt, service.hasOnToken, service.call.response))
    /\ UNCHANGED <<sessions, activeSessionId, persisted, emitted, nextId, provider, chats, runs, document,
                   lastCall, lastOp, review, chatHistory, fixContext, memento>>

\* The operation resumes after an await (fetch, a read of the body).
ServiceResume ==
    /\ service.outcome = "await"
    /\ service' = serviceAfter(serviceStep(service.call, service.operation, service.shaped))
    /\ UNCHANGED <<sessions, activeSessionId, persisted, emitted, nextId, provider, chats, runs, document,
                   lastCall, lastOp, review, chatHistory, fixContext, memento>>

SpecService == InitService /\ [][ServiceCall \/ ServiceResume]_vars

(***************************************************************************)
(* The construction of the manager on its own: the memento holds up to     *)
(* MaxStored sessions, each written by this store or by an earlier schema  *)
(* that lacked some of the optional fields. Before the constructor body    *)
(* runs the fields hold their initializers (no sessions, no active id).    *)
(***************************************************************************)
MaxStored == 2       \* sessions the memento holds at activation

StoredMessagesOf(status) ==
    IF status = "idle" THEN {<<>>, <<[id |-> 1, role |-> "user", content |-> <<"hi">>, pending |-> FALSE]>>}
    ELSE {<<[id |-> 1, role |-> "agent", content |-> <<"Starting">>, pending |-> FALSE]>>}

StoredSessions(id) ==
    {[s |-> [newSession(id, type, <<"old">>, [NoMetadata EXCEPT !["filePath"] = filePath])
                EXCEPT !.status = status, !.messages = messages, !.updatedAt = "later"],
      missing |-> missing] :
        type \in ChatSessionType, filePath \in {Absent, <<"file">>}, status \in {"idle", "completed"},
        messages \in StoredMessagesOf("idle") \cup StoredMessagesOf("completed"),
        missing \in SUBSET OptionalFields}

RECURSIVE StoredLists(_)
StoredLists(n) ==
    IF n = 0 THEN {<<>>}
    ELSE StoredLists(n - 1)
         \cup {Append(stored, session) :
                    stored \in {l \in StoredLists(n - 1) : Len(l) = n - 1}, session \in StoredSessions(n)}

InitLoad ==
    /\ sessions = <<>>
    /\ activeSessionId = NoId
    /\ \E stored \in StoredLists(MaxStored) :
            /\ persisted = stored
            /\ memento = [stored |-> stored, constructed |-> FALSE]
    /\ emitted = [sessions |-> <<>>, activeSessionId |-> NoId]
    /\ nextId = 1
    /\ provider = [name |-> "local", apiKey |-> <<>>]
    /\ chats = [k \in 1..MaxChats |-> FreeChat]
    /\ runs = [r \in 1..MaxRuns |-> FreeRun]
    /\ document = [lines |-> [i \in 1..LineCount |-> <<ToString(i)>>], edits |-> <<>>, saves |-> 0]
    /\ lastCall = NoCall
    /\ lastOp = NoOp
    /\ review = NoReview
    /\ chatHistory = NoHistory
    /\ service = NoService
    /\ fixContext = NoFixContext

\* new ChatSessionManager(context.workspaceState)
Construct ==
    /\ ~memento.constructed
    /\ SetStore(constructor(memento.stored))
    /\ memento' = [memento EXCEPT !.constructed = TRUE]
    /\ UNCHANGED <<provider, chats, runs, document, lastCall, lastOp, review, chatHistory, service, fixContext>>

SpecLoad == InitLoad /\ [][Construct]_vars

(***************************************************************************)
(* buildContext on its own: documents of 1..LineCount lines and diagnostic *)
(* ranges whose lines run up to MaxDiagnosticLine, which lies past the end *)
(* of every document (a diagnostic outlives the edits made after the scan  *)
(* that reported it).                                                      *)
(***************************************************************************)
MaxDiagnosticLine == 18   \* largest line number of a diagnostic range

ContextInputs ==
    {[NoFixContext EXCEPT !.document = [lines |-> [i \in 1..n |-> <<ToString(i)>>]],
                          !.diagnostic = [NoDiagnostic EXCEPT !.start = start, !.end = end]] :
        n \in 1..LineCount, start \in 0..MaxDiagnosticLine, end \in 0..MaxDiagnosticLine}

InitContext ==
    /\ sessions = constructor(<<>>).sessions
    /\ activeSessionId = constructor(<<>>).activeSessionId
    /\ persisted = constructor(<<>>).persisted
    /\ emitted = constructor(<<>>).emitted
    /\ nextId = constructor(<<>>).nextId
    /\ provider = [name |-> "local", apiKey |-> <<>>]
    /\ chats = [k \in 1..MaxChats |-> FreeChat]
    /\ runs = [r \in 1..MaxRuns |-> FreeRun]
    /\ document = [lines |-> [i \in 1..LineCount |-> <<ToString(i)>>], edits |-> <<>>, saves |-> 0]
    /\ lastCall = NoCall
    /\ lastOp = NoOp
    /\ review = NoReview
    /\ chatHistory = NoHistory
    /\ service = NoService
    /\ \E input \in ContextInputs :
            /\ input.diagnostic.start <= input.diagnostic.end
            /\ fixContext = input
    /\ memento = NoMemento

\* const context = this.buildContext(document, diagnostic)
BuildContext ==
    /\ ~fixContext.built
    /\ fixContext' = [fixContext EXCEPT !.built = TRUE,
                                        !.context = buildContext(fixContext.document, fixContext.diagnostic)]
    /\ UNCHANGED <<sessions, activeSessionId, persisted, emitted, nextId, provider, chats, runs, document,
                   lastCall, lastOp, review, chatHistory, service, memento>>

SpecContext == InitContext /\ [][BuildContext]_vars

(***************************************************************************)
(* Properties                                                              *)
(***************************************************************************)
HasSession(id) == findIndex(sessions, id) # 0
SessionOf(id) == sessions[findIndex(sessions, id)]
HasMessage(sessionId, messageId) ==
    HasSession(sessionId) /\ findIndex(SessionOf(sessionId).messages, messageId) # 0
MessageOf(sessionId, messageId) ==
    SessionOf(sessionId).messages[findIndex(SessionOf(sessionId).messages, messageId)]

\* The fragments handed to onToken in a callback log, in the order invoked.
RECURSIVE tokenTexts(_)
tokenTexts(log) ==
    IF log = <<>> THEN <<>>
    ELSE (IF Head(log).e = "token" THEN <<Head(log).text>> ELSE <<>>) \o tokenTexts(Tail(log))

\* The run has passed vscode.workspace.applyEdit with success (a save that
\* throws afterwards ends the run in error with the edit made).
HasApplied(run) == run.edited

AppliedRuns == {r \in 1..MaxRuns : HasApplied(runs[r])}

\* C1: the document is edited only by a run whose latest proposal the
\* approval agent approved and whose user then chose Apply Fix; every other
\* run leaves zero edits; and each edit replaces exactly the range buildContext
\* computed at the start of the run with the approved replacement text.
C1_EditOnlyAfterApprovalAndConsent ==
    /\ Len(document.edits) = Cardinality(AppliedRuns)
    /\ \A r \in AppliedRuns :
            /\ runs[r].approval.decision = "approve"
            /\ runs[r].userChoice = APPLY_ACTION
            /\ runs[r].context.startLine = Max(0, runs[r].diagnostic.start - ContextPadding)
            /\ \E e \in 1..Len(document.edits) :
                    document.edits[e] = [startLine |-> runs[r].context.startLine,
                                         endLine |-> runs[r].context.endLine,
                                         text |-> runs[r].proposal.replacement]
    /\ \A r \in 1..MaxRuns :
            (\/ runs[r].pc \in {"request", "review", "confirm", "apply"}
             \/ runs[r].pc = "done" /\ runs[r].outcome \in {"rejected", "cancelled"}
             \/ runs[r].pc = "done" /\ runs[r].outcome = "error" /\ runs[r].userChoice # APPLY_ACTION)
                => r \notin AppliedRuns
    /\ (MaxRuns = 1 /\ AppliedRuns # {}) =>
            LET run == runs[1] IN
            document.lines =
                [i \in 1..run.context.startLine |-> <<ToString(i)>>]
                \o split(run.proposal.replacement)
                \o [i \in 1..(LineCount - run.context.endLine - 1) |->
                        <<ToString(run.context.endLine + 1 + i)>>]

\* C1's case: an approved fix the user chose to apply has been written over
\* the context of the diagnostic at lines 6..9 (padding 5: lines 1..11).
C1_Witness ==
    \E r \in 1..MaxRuns :
        /\ runs[r].pc = "done" /\ runs[r].outcome = "applied"
        /\ runs[r].diagnostic.start = 6
        /\ document.edits # <<>>
        /\ Len(document.lines) < LineCount

\* C2: with attempt bound 3, a run whose every proposal is rejected makes
\* exactly 3 propose/review cycles, then ends with the "could not sign off"
\* message, status completed, and no edit.
C2_ThreeCyclesWhenAlwaysRejected ==
    \A r \in 1..MaxRuns :
        runs[r].pc = "done" /\ runs[r].outcome = "rejected" =>
            /\ runs[r].proposeCount = 3
            /\ runs[r].reviewCount = 3
            /\ document.edits = <<>>
            /\ HasSession(runs[r].sessionId) => SessionOf(runs[r].sessionId).status = "completed"

\* C2's case in the code: a run ended by rejection, its session completed.
C2_Witness ==
    \E r \in 1..MaxRuns :
        /\ runs[r].pc = "done" /\ runs[r].outcome = "rejected"
        /\ HasSession(runs[r].sessionId)
        /\ SessionOf(runs[r].sessionId).status = "completed"
        /\ document.edits = <<>>

\* C3: a rejection at an attempt below the bound 3 is followed by the next
\* attempt, whose prompt carries the rejection notes so far in order; and a
\* run approved at attempt k made exactly k propose and k review stages and
\* offers attempt k's replacement.
C3_FirstApprovalAtAttemptK ==
    \A r \in 1..MaxRuns :
        LET run == runs[r] IN
        /\ (run.revisionFeedback # <<>> /\ Len(run.revisionFeedback) < 3 /\ run.outcome # "error")
                => /\ run.attempt = Len(run.revisionFeedback) + 1
                   /\ run.proposeCount = run.attempt
                   /\ run.prompts[run.attempt] =
                        buildFixPrompt(run.diagnostic, run.context, run.attempt, run.revisionFeedback)
        /\ (run.approval.decision = "approve")
                => /\ run.proposeCount = run.attempt
                   /\ run.reviewCount = run.attempt
                   /\ run.proposal.replacement = replacementOf(run.proposal.raw)

\* C3's case in the code: the first attempt was rejected with notes.
C3_Witness ==
    \E r \in 1..MaxRuns :
        /\ runs[r].reviewCount = 1
        /\ runs[r].approval.decision = "reject"
        /\ runs[r].revisionFeedback = <<<<"fix it">>>>

PendingOf(session) == {m \in 1..Len(session.messages) : session.messages[m].pending}

\* C4: in every snapshot, every session has at most one pending message.
C4_AtMostOnePending ==
    \A i \in 1..Len(sessions) : Cardinality(PendingOf(sessions[i])) <= 1

\* C4's case in the code: one session holds two pending placeholders.
C4_Witness ==
    \E i \in 1..Len(sessions) : Cardinality(PendingOf(sessions[i])) = 2

\* C5: no session has two provider chat calls in flight at once.
C5_OneCallInFlightPerSession ==
    \A j, k \in 1..MaxChats :
        (j # k /\ chats[j].pc = "chat" /\ chats[k].pc = "chat")
            => chats[j].sessionId # chats[k].sessionId

\* C5's case in the code: two calls in flight for one running session.
C5_Witness ==
    \E j, k \in 1..MaxChats :
        /\ j # k /\ chats[j].pc = "chat" /\ chats[k].pc = "chat"
        /\ chats[j].sessionId = chats[k].sessionId
        /\ HasSession(chats[j].sessionId)
        /\ SessionOf(chats[j].sessionId).status = "running"

\* C6: every session the manager holds has allowUserInput = (type = "qa"):
\* when created, when loaded from storage, and after every operation.
C6_AllowUserInputIffQa ==
    \A i \in 1..Len(sessions) : sessions[i].allowUserInput = (sessions[i].type = "qa")

\* C6's case: a fix session loaded from storage that lacked the field, kept
\* through the creation of a second session and operations of a run on it.
C6_Witness ==
    /\ Len(sessions) = 2
    /\ \E i \in 1..2 : sessions[i].type = "fix" /\ sessions[i].title = <<"old fix">>
    /\ \E i \in 1..2 : sessions[i].type = "fix" /\ Len(sessions[i].messages) > 4

\* C7: the fragments appended with appendToMessage to the pending message of
\* requestFix, followed by updateMessage pending:false, leave a message whose
\* content is the concatenation of the fragments in order (requestFix keeps
\* that concatenation in fullText) and whose pending flag is false.
C7_AppendedFragmentsConcatenate ==
    \A r \in 1..MaxRuns :
        (runs[r].proposal # NoProposal /\ HasMessage(runs[r].sessionId, runs[r].assistantMessage))
            => /\ MessageOf(runs[r].sessionId, runs[r].assistantMessage).content = runs[r].proposal.raw
               /\ MessageOf(runs[r].sessionId, runs[r].assistantMessage).content = runs[r].fullText
               /\ ~MessageOf(runs[r].sessionId, runs[r].assistantMessage).pending

\* C7's case: a message completed after several fragments of one unit each.
C7_Witness ==
    \E r \in 1..MaxRuns :
        /\ runs[r].proposal # NoProposal
        /\ HasMessage(runs[r].sessionId, runs[r].assistantMessage)
        /\ Len(MessageOf(runs[r].sessionId, runs[r].assistantMessage).content) >= 5
        /\ runs[r].call.kind = "openai"

\* While a call is in flight its message is pending and holds the fragments
\* emitted so far, in order.
InFlightInOrder ==
    \A k \in 1..MaxChats :
        (chats[k].pc = "chat" /\ HasMessage(chats[k].sessionId, chats[k].placeholder))
            => /\ MessageOf(chats[k].sessionId, chats[k].placeholder).pending
               /\ MessageOf(chats[k].sessionId, chats[k].placeholder).content
                    = Concat(tokenTexts(chats[k].call.log))

\* When the call returns, its message holds all fragments in order and is
\* no longer pending.
CompletedInOrder ==
    (lastCall.outcome = "return" /\ HasMessage(lastCall.sessionId, lastCall.placeholder))
        => /\ ~MessageOf(lastCall.sessionId, lastCall.placeholder).pending
           /\ MessageOf(lastCall.sessionId, lastCall.placeholder).content
                = Concat(tokenTexts(lastCall.call.log))

\* A message that is not pending is never appended to (nor made pending).
NoAppendAfterCompletion ==
    \/ sessions' = sessions
    \/ \A i \in 1..Len(sessions) : \A j \in 1..Len(sessions') :
            sessions'[j].id = sessions[i].id =>
                \A m \in 1..Len(sessions[i].messages) :
                    ~sessions[i].messages[m].pending
                        => sessions'[j].messages[m] = sessions[i].messages[m]

\* C8: the fragments of one provider call reach its message in the order
\* emitted; the message stops being pending only after the last fragment;
\* nothing is appended to it afterwards.
C8_TokensInOrderThenCompletion ==
    /\ InFlightInOrder /\ CompletedInOrder
    /\ [][InFlightInOrder' /\ CompletedInOrder' /\ NoAppendAfterCompletion]_vars

\* C8's case: a streamed call returned after fragments arrived over
\* several reads.
C8_Witness ==
    /\ lastCall.outcome = "return"
    /\ lastCall.call.response.hasBody
    /\ Len(tokenTexts(lastCall.call.log)) = 2
    /\ HasMessage(lastCall.sessionId, lastCall.placeholder)

\* The call took a path that holds the whole text before calling back.
NonStreamingReturn ==
    /\ lastCall.outcome = "return"
    /\ lastCall.call.kind \in {"anthropic", "local"} \/ ~lastCall.call.response.hasBody

\* onStart once, then only onToken, then onComplete once.
StartTokensComplete(log) ==
    /\ Len(log) >= 2
    /\ log[1].e = "start"
    /\ log[Len(log)].e = "complete"
    /\ \A i \in 2..(Len(log) - 1) : log[i].e = "token"

\* C9 as stated: every non-streaming call given onToken invokes onStart, at
\* least one onToken, then onComplete, and the fragments concatenate to the
\* text completed and returned, for every response text.
C9_AtLeastOneTokenForEveryText ==
    NonStreamingReturn =>
        /\ StartTokensComplete(lastCall.call.log)
        /\ Len(tokenTexts(lastCall.call.log)) >= 1
        /\ Concat(tokenTexts(lastCall.call.log)) = lastCall.value
        /\ lastCall.call.log[Len(lastCall.call.log)].text = lastCall.value

\* C9 amended: the same, with at least one onToken exactly when the text is
\* not empty (an empty text gives onStart then onComplete only).
C9_TokensForNonEmptyText ==
    NonStreamingReturn =>
        /\ StartTokensComplete(lastCall.call.log)
        /\ (Len(tokenTexts(lastCall.call.log)) >= 1) = (lastCall.value # <<>>)
        /\ \A i \in 1..Len(tokenTexts(lastCall.call.log)) : tokenTexts(lastCall.call.log)[i] # <<>>
        /\ Concat(tokenTexts(lastCall.call.log)) = lastCall.value
        /\ lastCall.call.log[Len(lastCall.call.log)].text = lastCall.value

\* C9's case: a text longer than one chunk came back through two fragments.
C9_Witness ==
    /\ NonStreamingReturn
    /\ lastCall.call.kind = "anthropic"
    /\ lastCall.value = LongText
    /\ Len(tokenTexts(lastCall.call.log)) = 2

IdSet(ss) == {ss[i].id : i \in 1..Len(ss)}

\* What a step that is deleteSession(lastOp'.sessionId) does.
DeleteStep ==
    lastOp'.op = "delete" =>
        LET id == lastOp'.sessionId IN
        IF id \notin IdSet(sessions)
        THEN UNCHANGED <<sessions, activeSessionId, persisted, emitted, nextId>>
        ELSE /\ IdSet(sessions') = IdSet(sessions) \ {id}
             /\ IF activeSessionId # id THEN activeSessionId' = activeSessionId
                ELSE IF IdSet(sessions') = {} THEN activeSessionId' = NoId
                ELSE activeSessionId' \in IdSet(sessions')

\* C10: deleting the active session makes another remaining session active,
\* or none when none remains; deleting a non-active session leaves the active
\* one; deleting an unknown id changes nothing.
C10_DeleteSession == [][DeleteStep]_vars

\* C10's case: the active session was deleted while another remained.
C10_Witness ==
    /\ lastOp.op = "delete"
    /\ lastOp.before.activeSessionId = lastOp.sessionId
    /\ Len(lastOp.before.ids) = 2
    /\ activeSessionId # NoId
    /\ activeSessionId # lastOp.sessionId

(***************************************************************************)
(* parseApprovalResponse                                                   *)
(***************************************************************************)
\* Whether extractJsonCandidate finds an object in the trimmed text that JSON.parse accepts.
ObjectParses(trimmed) == extractJsonCandidate(trimmed) # <<>> /\ JsonParses(extractJsonCandidate(trimmed))

\* The decision member of a parsed object ("undefined": it has none).
DecisionField(candidate) ==
    IF lastMember(candidate, "decision") = 0 THEN "undefined"
    ELSE candidate[lastMember(candidate, "decision")]

\* The notes of a parsed object, trimmed (empty when absent or not a string).
JsonNotes(candidate) ==
    IF lastMember(candidate, "notes") = 0 THEN <<>>
    ELSE notesTrimmed(candidate[lastMember(candidate, "notes")])

FallbackApproves(trimmed) == includes(trimmed, ApproveUnits) /\ ~includes(trimmed, RejectUnits)

ExpectedNotes(trimmed) ==
    IF ObjectParses(trimmed) THEN JsonNotes(extractJsonCandidate(trimmed))
    ELSE IF trimmed # <<>> THEN trimmed
    ELSE EmptyResponseNote

Parsed == review.approval # NoApproval

FencedApprove == <<Fence, "json", "\n", "{", "decision:approve", ",", "notes:ok", "}", Fence>>

\* C11 (as stated): parseApprovalResponse returns 'approve' exactly when a
\* JSON object found in the response parses and its decision field is the
\* literal "approve", or no object parses and the lower-cased text contains
\* "approve" and not "reject"; it returns 'reject' otherwise. The notes are
\* the JSON notes, the raw trimmed text in the fallback, and the default
\* note for empty input.
C11_ApproveOnlyForLiteralApprove ==
    Parsed =>
        /\ review.approval.decision \in {"approve", "reject"}
        /\ review.approval.decision = "approve" <=>
                \/ /\ ObjectParses(trim(review.response))
                   /\ DecisionField(extractJsonCandidate(trim(review.response))) = "decision:approve"
                \/ ~ObjectParses(trim(review.response)) /\ FallbackApproves(trim(review.response))
        /\ review.approval.notes = ExpectedNotes(trim(review.response))

\* C11 (amended): as above, but the decision field is compared after
\* String(decision || '').toLowerCase(), so "APPROVE" and ["approve"] are
\* approvals too; the four examples give {approve, "ok"}, {approve, raw},
\* {reject, raw} and {reject, default note}.
C11_ApproveForLowerCasedApprove ==
    Parsed =>
        /\ review.approval.decision \in {"approve", "reject"}
        /\ review.approval.decision = "approve" <=>
                \/ /\ ObjectParses(trim(review.response))
                   /\ DecisionField(extractJsonCandidate(trim(review.response))) # "undefined"
                   /\ decisionLower(DecisionField(extractJsonCandidate(trim(review.response)))) = "approve"
                \/ ~ObjectParses(trim(review.response)) /\ FallbackApproves(trim(review.response))
        /\ review.approval.notes = ExpectedNotes(trim(review.response))
        /\ review.response = FencedApprove => review.approval = [decision |-> "approve", notes |-> <<"ok">>]
        /\ review.response = <<"Looks good, I approve this change">>
                => review.approval = [decision |-> "approve", notes |-> <<"Looks good, I approve this change">>]
        /\ review.response = <<"Reject: missing null check">>
                => review.approval = [decision |-> "reject", notes |-> <<"Reject: missing null check">>]
        /\ review.response = <<>> => review.approval = [decision |-> "reject", notes |-> EmptyResponseNote]

\* An object whose decision is "APPROVE" in a fenced block, with prose that
\* says reject after it, was parsed as an approval with the object's notes.
C11_Witness ==
    /\ review.response = <<Fence, "\n", "{", "decision:APPROVE", ",", "notes: fix it ", "}", "\n", Fence, " ", "reject">>
    /\ review.approval = [decision |-> "approve", notes |-> <<"fix it">>]

(***************************************************************************)
(* The status of a fix session during its run                              *)
(***************************************************************************)
\* The status of the session of run r ("none": not created yet, or deleted).
RunStatus(r) ==
    IF runs[r].sessionId # NoId /\ HasSession(runs[r].sessionId)
    THEN SessionOf(runs[r].sessionId).status
    ELSE "none"

TerminalStatusStays ==
    \A r \in 1..MaxRuns :
        RunStatus(r) \in {"completed", "error"} => RunStatus(r)' \in {RunStatus(r), "none"}

\* C12 (as stated): during one FixAgent.run the session's status follows
\* idle -> running -> {completed | error}: once the run has set it to
\* running it is never idle again, and once it is completed or error the
\* run changes it no further.
C12_NeverIdleAfterRunning ==
    [][/\ \A r \in 1..MaxRuns : runs'[r].pc # "free" => RunStatus(r)' # "idle"
       /\ TerminalStatusStays]_vars

\* C12 (amended): the status is running while the run proposes and reviews,
\* idle from the approval on (while the user is asked and the edit is applied
\* and saved), never running again after that, and completed or error exactly
\* when the run has ended, after which it changes no further.
C12_IdleOnlyFromApprovalOn ==
    [][/\ \A r \in 1..MaxRuns :
            /\ runs'[r].pc \in {"request", "review"} => RunStatus(r)' \in {"running", "none"}
            /\ runs'[r].pc \in {"confirm", "apply", "save"} =>
                    /\ RunStatus(r)' \in {"idle", "none"}
                    /\ runs'[r].approval.decision = "approve"
            /\ runs'[r].pc = "done" => RunStatus(r)' \in {"completed", "error", "none"}
            /\ RunStatus(r) = "idle" => RunStatus(r)' # "running"
       /\ TerminalStatusStays]_vars

\* A run that went through an await with its session running is now asking
\* the user, with the session idle.
C12_Witness ==
    \E r \in 1..MaxRuns :
        /\ runs[r].pc = "confirm"
        /\ RunStatus(r) = "idle"
        /\ createProvider(provider.name) # "local"

(***************************************************************************)
(* The end of a fix run                                                    *)
(***************************************************************************)
\* The agent message run() adds last, by the way the run ended.
DescribesOutcome(content, outcome) ==
    CASE outcome = "error" -> Head(content) = "Failed to complete the fix: "
      [] outcome = "rejected" ->
            content = <<"Approval agent could not sign off on a safe fix after 3 attempts. Please review the issue manually.">>
      [] outcome = "cancelled" -> content = <<"Fix application cancelled by user.">>
      [] outcome = "applied" -> content = <<"Fix applied. Please review and run your tests.">>
      [] OTHER -> FALSE

LastMessage(sessionId) == SessionOf(sessionId).messages[Len(SessionOf(sessionId).messages)]

\* Run r has ended, and its session (unless deleted meanwhile) is in a
\* terminal status with the outcome as its last message.
RunEnded(r) ==
    /\ runs[r].pc = "done"
    /\ HasSession(runs[r].sessionId) =>
            /\ SessionOf(runs[r].sessionId).status = (IF runs[r].outcome = "error" THEN "error" ELSE "completed")
            /\ SessionOf(runs[r].sessionId).messages # <<>>
            /\ LastMessage(runs[r].sessionId).role = "agent"
            /\ ~LastMessage(runs[r].sessionId).pending
            /\ DescribesOutcome(LastMessage(runs[r].sessionId).content, runs[r].outcome)

\* C13: when every provider call, the confirmation prompt and the edit and
\* save calls eventually return or throw, every FixAgent.run eventually
\* ends, and a run that has ended has its session in a terminal status
\* (completed or error, never running) with a final agent message that
\* describes the outcome.
C13_EveryRunEnds ==
    /\ \A r \in 1..MaxRuns : (runs[r].pc # "free") ~> RunEnded(r)
    /\ [](\A r \in 1..MaxRuns : runs[r].pc = "done" => RunEnded(r))

\* A run ended in error because the edit was rejected after the user chose
\* to apply; its session is in status error with the failure as last message.
C13_Witness ==
    \E r \in 1..MaxRuns :
        /\ RunEnded(r)
        /\ HasSession(runs[r].sessionId)
        /\ runs[r].userChoice = APPLY_ACTION
        /\ LastMessage(runs[r].sessionId).content =
                <<"Failed to complete the fix: ", "VS Code rejected the workspace edit.">>

(***************************************************************************)
(* handleUserMessage: the calls it ignores                                 *)
(***************************************************************************)
Blank(content) == \A n \in 1..Len(content) : content[n] \in WhiteSpace

\* The session does not exist, takes no user input, or the text is blank.
Ignorable(sessionId, content) ==
    \/ ~HasSession(sessionId)
    \/ ~SessionOf(sessionId).allowUserInput
    \/ Blank(content)

\* C14: handleUserMessage(sessionId, text) changes nothing in the store (no
\* message added, status and metadata unchanged, nothing persisted or
\* emitted) and issues no provider call whenever the session does not
\* exist, its allowUserInput is false, or the text is empty after trimming.
C14_IgnoredMessageChangesNothing ==
    [][\A k \in 1..MaxChats, sessionId \in SessionIds, content \in UserInputs :
            \A response \in ChatResponses(createProvider(provider.name)) :
                (Ignorable(sessionId, content) /\ HandleUserMessage(k, sessionId, content, response))
                    => /\ UNCHANGED <<sessions, activeSessionId, persisted, emitted, nextId, chats>>
                       /\ lastCall'.outcome = "ignored"
                       /\ lastCall'.call = IdleCall]_vars

\* A message sent to a fix session was just ignored with the read-only
\* warning; the session has no message and is not running.
C14_Witness ==
    /\ lastCall.outcome = "ignored"
    /\ lastCall.notice = ReadOnlySession
    /\ \E i \in 1..Len(sessions) :
            /\ ~sessions[i].allowUserInput
            /\ sessions[i].messages = <<>>
            /\ sessions[i].status = "completed"
    /\ \A k \in 1..MaxChats : chats[k].pc = "free"

(***************************************************************************)
(* handleUserMessage: a failing provider call                              *)
(***************************************************************************)
\* C15: when the provider call of handleUserMessage fails, at any point
\* (also after tokens were streamed into the placeholder), the placeholder
\* ends non-pending with the generic failure string as its content, and
\* the session's status ends as error.
C15_FailedCallLeavesFailureTextAndError ==
    (lastCall.outcome = "throw" /\ HasSession(lastCall.sessionId))
        => /\ SessionOf(lastCall.sessionId).status = "error"
           /\ HasMessage(lastCall.sessionId, lastCall.placeholder)
           /\ ~MessageOf(lastCall.sessionId, lastCall.placeholder).pending
           /\ MessageOf(lastCall.sessionId, lastCall.placeholder).content = FailureText
           /\ MessageOf(lastCall.sessionId, lastCall.placeholder).role = "assistant"
           /\ lastCall.notice = ChatFailedNotice

\* A streamed call failed at a read after a token had been appended to the
\* placeholder, which now holds the failure string.
C15_Witness ==
    /\ lastCall.outcome = "throw"
    /\ tokenTexts(lastCall.call.log) # <<>>
    /\ HasMessage(lastCall.sessionId, lastCall.placeholder)
    /\ MessageOf(lastCall.sessionId, lastCall.placeholder).content = FailureText
    /\ SessionOf(lastCall.sessionId).status = "error"

(***************************************************************************)
(* handleUserMessage: the order of its effects                             *)
(***************************************************************************)
\* Task k passes the guards of handleUserMessage in this step.
Sends(k) == chats[k].pc = "free" /\ chats'[k].pc # "free"

\* The session and the placeholder of the call task k makes or ends in this step.
CallSession(k) == IF chats'[k].pc = "chat" THEN chats'[k].sessionId ELSE lastCall'.sessionId
CallPlaceholder(k) == IF chats'[k].pc = "chat" THEN chats'[k].placeholder ELSE lastCall'.placeholder

\* The session's messages after the step: those before it, then the
\* trimmed user message, then the assistant placeholder.
UserThenPlaceholder(old, new, placeholder) ==
    /\ Len(new) = Len(old) + 2
    /\ SubSeq(new, 1, Len(old)) = old
    /\ new[Len(old) + 1].role = "user"
    /\ ~new[Len(old) + 1].pending
    /\ \E content \in UserInputs :
            new[Len(old) + 1].content = trim(content) /\ ~Blank(content)
    /\ new[Len(old) + 2].role = "assistant"
    /\ new[Len(old) + 2].id = placeholder

\* The placeholder and the status by how far the call has got: suspended
\* at an await (tokens so far, pending, running) or returned (the full
\* text, not pending, idle).
PlaceholderAsCallStands(k, session, message) ==
    /\ chats'[k].pc = "chat" =>
            /\ message.pending
            /\ message.content = Concat(tokenTexts(chats'[k].call.log))
    /\ lastCall'.outcome = "return" =>
            /\ ~message.pending
            /\ message.content = lastCall'.value
            /\ message.content = Concat(tokenTexts(lastCall'.call.log))
            /\ session.status = "idle"

\* The session with the id in a list of sessions, and a message of it.
SessionIn(ss, id) == ss[findIndex(ss, id)]
MessageIn(ss, id, messageId) == SessionIn(ss, id).messages[findIndex(SessionIn(ss, id).messages, messageId)]

\* C16: a handleUserMessage call on a qa session appends the trimmed user
\* message, then the assistant placeholder with pending true, and sets the
\* status running; token fragments are applied to the placeholder while it
\* is pending; on completion pending is cleared and the status set to idle,
\* the placeholder's content being the provider's full text.
C16_EffectsInOrder ==
    [][\A k \in 1..MaxChats :
        /\ Sends(k) =>
            /\ findIndex(sessions, CallSession(k)) # 0
            /\ findIndex(sessions', CallSession(k)) # 0
            /\ SessionIn(sessions, CallSession(k)).allowUserInput
            /\ UserThenPlaceholder(SessionIn(sessions, CallSession(k)).messages,
                                   SessionIn(sessions', CallSession(k)).messages, CallPlaceholder(k))
            /\ chats'[k].pc = "chat" => SessionIn(sessions', CallSession(k)).status = "running"
            /\ PlaceholderAsCallStands(k, SessionIn(sessions', CallSession(k)),
                                       MessageIn(sessions', CallSession(k), CallPlaceholder(k)))
        /\ (chats[k].pc = "chat" /\ chats'[k] # chats[k] /\ findIndex(sessions', chats[k].sessionId) # 0) =>
            /\ Len(SessionIn(sessions', chats[k].sessionId).messages)
                    = Len(SessionOf(chats[k].sessionId).messages)
            /\ MessageOf(chats[k].sessionId, chats[k].placeholder).pending
            /\ PlaceholderAsCallStands(k, SessionIn(sessions', chats[k].sessionId),
                                       MessageIn(sessions', chats[k].sessionId, chats[k].placeholder))]_vars

\* A streamed call that was suspended at an await has returned: the message
\* before the placeholder is the user's trimmed text, the placeholder holds
\* both fragments and is not pending, and the status is idle.
C16_Witness ==
    /\ lastCall.outcome = "return"
    /\ lastCall.call.response.hasBody
    /\ HasMessage(lastCall.sessionId, lastCall.placeholder)
    /\ LET msgs == SessionOf(lastCall.sessionId).messages
           p == findIndex(msgs, lastCall.placeholder)
       IN  /\ p >= 2
           /\ msgs[p - 1].role = "user"
           /\ msgs[p - 1].content = <<"q">>
           /\ msgs[p].content = <<"a", "b">>
           /\ ~msgs[p].pending
    /\ SessionOf(lastCall.sessionId).status = "idle"

(***************************************************************************)
(* buildChatHistory                                                        *)
(***************************************************************************)
\* The positions of the messages that are replayed.
Replayed(messages) == {n \in 1..Len(messages) : messages[n].role \in {"user", "assistant"}}

\* The j-th replayed position, in session order.
ReplayedAt(messages, j) ==
    CHOOSE n \in Replayed(messages) : Cardinality({m \in Replayed(messages) : m <= n}) = j

\* C17: the history handleUserMessage sends to the provider holds exactly
\* the session's messages of role user or assistant, in session order, as
\* role and content; no message of role system, tool or agent is in it.
C17_HistoryIsUserAndAssistantInOrder ==
    chatHistory.built =>
        /\ Len(chatHistory.history) = Cardinality(Replayed(chatHistory.messages))
        /\ \A j \in 1..Len(chatHistory.history) :
                /\ DOMAIN chatHistory.history[j] = {"role", "content"}
                /\ chatHistory.history[j].role
                        = chatHistory.messages[ReplayedAt(chatHistory.messages, j)].role
                /\ chatHistory.history[j].content
                        = chatHistory.messages[ReplayedAt(chatHistory.messages, j)].content
                /\ chatHistory.history[j].role \notin {"system", "tool", "agent"}

\* The history of a session that holds an agent message, a question and a
\* pending placeholder was built: the question, then the placeholder.
C17_Witness ==
    /\ chatHistory.built
    /\ Len(chatHistory.messages) = 3
    /\ chatHistory.messages[1].role = "agent"
    /\ chatHistory.messages[2] = [id |-> 2, role |-> "user", content |-> <<"q">>, pending |-> FALSE]
    /\ chatHistory.messages[3] = [id |-> 3, role |-> "assistant", content |-> <<>>, pending |-> TRUE]
    /\ chatHistory.history = <<[role |-> "user", content |-> <<"q">>], [role |-> "assistant", content |-> <<>>]>>

(***************************************************************************)
(* Store operations addressed to an unknown id                             *)
(***************************************************************************)
\* Every operation of the claim applied to store st with session id, which
\* st does not hold, gives st back.
UnknownSessionIgnored(st, id) ==
    /\ setActiveSession(st, id) = st
    /\ \A role \in ChatMessageRole, pending \in BOOLEAN : addMessage(st, id, role, <<"q">>, pending) = st
    /\ \A messageId \in 0..2 :
            /\ updateMessage(st, id, messageId, [pending |-> FALSE, content |-> <<"q">>]) = st
            /\ appendToMessage(st, id, messageId, <<"q">>) = st
    /\ \A status \in ChatSessionStatus : updateSessionStatus(st, id, status) = st
    /\ updateSessionMetadata(st, id, [k \in {"fixProposal"} |-> <<"q">>]) = st
    /\ \A title \in Titles : renameSession(st, id, title) = st

\* updateMessage and appendToMessage with a message id that session i of st
\* does not hold give st back.
UnknownMessageIgnored(st, i) ==
    \A messageId \in {0, Len(st.sessions[i].messages) + 1} :
        /\ updateMessage(st, st.sessions[i].id, messageId, [pending |-> FALSE, content |-> <<"q">>]) = st
        /\ appendToMessage(st, st.sessions[i].id, messageId, <<"q">>) = st

UnknownIdsIgnored(st) ==
    /\ \A id \in 1..(MaxSessions + 1) : findIndex(st.sessions, id) = 0 => UnknownSessionIgnored(st, id)
    /\ \A i \in 1..Len(st.sessions) : UnknownMessageIgnored(st, i)

\* A step of a fix run whose session is gone, or a select or rename intent
\* for an id the store does not hold.
OrphanStep ==
    \/ \E r \in 1..MaxRuns :
            /\ runs[r].pc \notin {"free", "done"}
            /\ runs'[r] # runs[r]
            /\ ~HasSession(runs[r].sessionId)
    \/ lastOp'.op \in {"select", "rename"} /\ ~HasSession(lastOp'.sessionId)

\* C18: store operations addressed to an unknown id change nothing.
\* setActiveSession with an id that matches no session leaves
\* activeSessionId unchanged; addMessage, updateMessage, appendToMessage,
\* updateSessionStatus, updateSessionMetadata and renameSession with an
\* unknown session id (or message id) leave all sessions unchanged and
\* neither persist nor notify.
C18_UnknownIdChangesNothing ==
    /\ [](UnknownIdsIgnored(Store))
    /\ [][OrphanStep => UNCHANGED <<sessions, activeSessionId, persisted, emitted, nextId>>]_vars

\* A session that the store does not hold was just selected: another
\* session is still the active one, and the snapshot emitted last and the
\* persisted sessions are those of the store.
C18_Witness ==
    /\ lastOp.op = "select"
    /\ ~HasSession(lastOp.sessionId)
    /\ activeSessionId # NoId
    /\ HasSession(activeSessionId)
    /\ emitted = getState(Store)
    /\ \E r \in 1..MaxRuns : runs[r].pc = "done" /\ ~HasSession(runs[r].sessionId)

(***************************************************************************)
(* renameSession with a blank title                                        *)
(***************************************************************************)
\* The last step renamed a session the store holds to a title that is
\* empty after trimming.
BlankRename == lastOp'.op = "rename" /\ Blank(lastOp'.title) /\ HasSession(lastOp'.sessionId)

\* C19: renameSession(sessionId, title) with a title that is empty after
\* trimming is ignored: the session is left unchanged, with the same title
\* and the same other fields as before the call.
C19_BlankRenameLeavesSessionUnchanged ==
    [][BlankRename => SessionIn(sessions', lastOp'.sessionId) = SessionOf(lastOp'.sessionId)]_vars

\* A session untouched since its creation was renamed to a blank title: it
\* keeps its title, but its updatedAt is that of the rename, and the
\* snapshot with it was persisted and emitted.
C19_Witness ==
    /\ lastOp.op = "rename"
    /\ Blank(lastOp.title)
    /\ HasSession(lastOp.sessionId)
    /\ SessionOf(lastOp.sessionId).title = defaultTitleForType("qa")
    /\ SessionOf(lastOp.sessionId).messages = <<>>
    /\ SessionOf(lastOp.sessionId).updatedAt = "later"
    /\ emitted = getState(Store)

(***************************************************************************)
(* The snapshot delivered to the observers                                 *)
(***************************************************************************)
\* The snapshot fired last by the store st is that of st itself.
EmitsOwnEffect(st) == st.emitted = getState(st)

\* Each operation on session i of st, and on each of its messages, fires
\* the snapshot that holds its effect.
SessionOperationsEmit(st, id, messages) ==
    /\ EmitsOwnEffect(deleteSession(st, id))
    /\ EmitsOwnEffect(setActiveSession(st, id))
    /\ EmitsOwnEffect(addMessage(st, id, "agent", <<"q">>, FALSE))
    /\ EmitsOwnEffect(updateSessionStatus(st, id, "error"))
    /\ EmitsOwnEffect(updateSessionMetadata(st, id, [k \in {"approvalNotes"} |-> <<"q">>]))
    /\ \A title \in Titles : EmitsOwnEffect(renameSession(st, id, title))
    /\ \A n \in 1..Len(messages) :
            /\ EmitsOwnEffect(updateMessage(st, id, messages[n].id, [pending |-> FALSE]))
            /\ EmitsOwnEffect(appendToMessage(st, id, messages[n].id, <<"q">>))

EveryOperationEmits(st) ==
    /\ st.nextId <= MaxSessions => EmitsOwnEffect(createSession(st, "qa", defaultTitleForType("qa"), NoMetadata))
    /\ EmitsOwnEffect(clearAll(st))
    /\ EmitsOwnEffect(setActiveSession(st, NoId))
    /\ \A i \in 1..Len(st.sessions) : SessionOperationsEmit(st, st.sessions[i].id, st.sessions[i].messages)

\* C20: every store operation that mutates state (createSession,
\* deleteSession, setActiveSession, addMessage, updateMessage,
\* appendToMessage, updateSessionStatus, updateSessionMetadata,
\* renameSession, clearAll) fires, before it returns, the snapshot
\* {sessions, activeSessionId} that holds its effect: after every step that
\* changes the sessions or the active session the observers' snapshot is
\* the store's state, never an older one.
C20_SnapshotHoldsTheEffect ==
    /\ [](EveryOperationEmits(Store))
    /\ [][(sessions' # sessions \/ activeSessionId' # activeSessionId)
            => emitted' = [sessions |-> sessions', activeSessionId |-> activeSessionId']]_vars

\* A fix run is suspended in its streamed request after a token was
\* appended to its assistant message: the snapshot fired holds the token,
\* which the persisted sessions do not hold yet.
C20_Witness ==
    \E r \in 1..MaxRuns :
        /\ runs[r].pc = "request"
        /\ HasMessage(runs[r].sessionId, runs[r].assistantMessage)
        /\ MessageOf(runs[r].sessionId, runs[r].assistantMessage).content # <<>>
        /\ emitted = getState(Store)
        /\ \E i \in 1..Len(persisted) : persisted[i].s \notin {sessions[n] : n \in 1..Len(sessions)}

(***************************************************************************)
(* Persistence of streamed content                                         *)
(***************************************************************************)
\* What memento.update(STORAGE_KEY, ss) leaves in the memento.
Persisted(ss) == [i \in 1..Len(ss) |-> [s |-> ss[i], missing |-> {}]]

\* Session `new` has reached completed or error, or one of its messages has
\* stopped pending, since `old` (the same session one step earlier).
Settles(old, new) ==
    \/ new.status \in {"completed", "error"} /\ old.status # new.status
    \/ \E m \in 1..Len(old.messages) : old.messages[m].pending /\ ~new.messages[m].pending

\* In this step a session of the store settles.
SettlingStep(ss, tt) ==
    \E i \in 1..Len(tt) :
        /\ findIndex(ss, tt[i].id) # 0
        /\ Settles(ss[findIndex(ss, tt[i].id)], tt[i])

\* From store st, updateSessionStatus to a terminal status and updateMessage
\* with pending:false leave the memento equal to the sessions in memory.
FlushedByOperations(st) ==
    \A i \in 1..Len(st.sessions) :
        /\ \A status \in {"completed", "error"} :
            LET after == updateSessionStatus(st, st.sessions[i].id, status)
            IN  after.persisted = Persisted(after.sessions)
        /\ \A m \in 1..Len(st.sessions[i].messages) :
            LET after == updateMessage(st, st.sessions[i].id, st.sessions[i].messages[m].id,
                                       [pending |-> FALSE])
            IN  after.persisted = Persisted(after.sessions)

\* C21: whenever a session's status becomes completed or error, or a
\* message stops pending, the persisted session list equals the session list
\* in memory at that moment, fragments streamed by appendToMessage included.
C21_SettledSessionsArePersisted ==
    /\ [](FlushedByOperations(Store))
    /\ [][SettlingStep(sessions, sessions') => persisted' = Persisted(sessions')]_vars

\* C21's case: a streamed reply of several tokens has completed (its message
\* has stopped pending), and the memento holds the whole of it.
C21_Witness ==
    /\ lastCall.outcome = "return"
    /\ Len(tokenTexts(lastCall.call.log)) >= 2
    /\ HasMessage(lastCall.sessionId, lastCall.placeholder)
    /\ MessageOf(lastCall.sessionId, lastCall.placeholder).content = Concat(tokenTexts(lastCall.call.log))
    /\ ~MessageOf(lastCall.sessionId, lastCall.placeholder).pending
    /\ persisted = Persisted(sessions)

(***************************************************************************)
(* AIService: credentials, streaming frames, HTTP errors                   *)
(***************************************************************************)
Called == service.outcome # "none"
Cloud == provider.name \in {"openai", "anthropic"}

\* C22: with a cloud provider and an empty api key, analyzeCode, generateFix
\* and chat each fail with the provider's 'API key not set' error before any
\* request is issued (and before any callback); the local provider never
\* fails and never issues a request.
C22_MissingKeyFailsBeforeAnyRequest ==
    /\ (Called /\ Cloud /\ provider.apiKey = <<>>)
            => /\ service.outcome = "throw"
               /\ service.value = KeyError(provider.name)
               /\ service.call.fetches = 0
               /\ service.call.log = <<>>
    /\ (Called /\ provider.name = "local")
            => /\ service.outcome = "return"
               /\ service.call.fetches = 0
    /\ service.call.fetches > 0 => Cloud /\ provider.apiKey # <<>>

\* C22's case: generateFix on the anthropic provider without a key has
\* thrown, against a server that would have answered.
C22_Witness ==
    /\ provider = [name |-> "anthropic", apiKey |-> <<>>]
    /\ service.operation = "generateFix"
    /\ service.call.response = Whole(<<"a", "b">>)
    /\ service.outcome = "throw"
    /\ service.call.fetches = 0

\* The call takes the streaming path of OpenAIProvider.chat.
Streaming ==
    /\ service.operation = "chat" /\ service.hasOnToken
    /\ provider.name = "openai" /\ provider.apiKey # <<>>
    /\ service.call.response.net = "ok" /\ service.call.response.ok /\ service.call.response.hasBody

\* A frame "data: <payload>\n" whose payload is JSON carrying a delta.
DeltaFrame(frame) == Len(frame) = 4 /\ frame[1] = "data:" /\ frame[3] \in {"J:a", "J:b"}

\* The deltas of the frames of a body that carry one, in order.
RECURSIVE DeltasOf(_)
DeltasOf(frames) ==
    IF frames = <<>> THEN <<>>
    ELSE (IF DeltaFrame(Head(frames))
          THEN <<IF Head(frames)[3] = "J:a" THEN <<"a">> ELSE <<"b">>>>
          ELSE <<>>) \o DeltasOf(Tail(frames))


\* A frame that is blank, has no 'data:' prefix, or whose payload is no JSON.
MalformedFrames == {<<" ", "\n">>, <<"event: ping", "\n">>, Frame("{bad")}

IsPrefix(s, t) == Len(s) <= Len(t) /\ s = SubSeq(t, 1, Len(s))

\* C23: in the streaming chat path a frame that is blank, has no 'data:'
\* prefix or holds invalid JSON yields no token and does not abort the
\* stream: the tokens passed to onToken are the deltas of the well-formed
\* data frames of the body in order, those before and those after such a
\* frame, and the call completes with onComplete (it throws only when a
\* read of the body rejects).
C23_MalformedFramesAreSkipped ==
    Streaming =>
        /\ IsPrefix(tokenTexts(service.call.log), DeltasOf(service.frames))
        /\ service.outcome = "throw" => service.call.response.readFail
        /\ service.outcome = "return" =>
                /\ tokenTexts(service.call.log) = DeltasOf(service.frames)
                /\ service.call.log[Len(service.call.log)] = CompleteEvent(Concat(DeltasOf(service.frames)))
                /\ service.value = Concat(DeltasOf(service.frames))
                /\ \A n \in 1..(Len(service.call.log) - 1) : service.call.log[n].e # "complete"

\* C23's case: a streamed call has completed with both deltas of a body
\* whose middle frame is malformed.
C23_Witness ==
    /\ Streaming
    /\ service.outcome = "return"
    /\ Len(service.frames) = 3
    /\ service.frames[1] = Frame("J:a") /\ service.frames[2] \in MalformedFrames
    /\ service.frames[3] = Frame("J:b")
    /\ tokenTexts(service.call.log) = << <<"a">>, <<"b">> >>


\* The frames of a body that come before its first 'data: [DONE]' frame.
RECURSIVE UpToSentinel(_)
UpToSentinel(frames) ==
    IF frames = <<>> \/ Head(frames) = Frame("[DONE]") THEN <<>>
    ELSE <<Head(frames)>> \o UpToSentinel(Tail(frames))

\* C24: in the streaming chat path the frame 'data: [DONE]' ends the read
\* loop: no onToken follows it, whatever frames come after it in the body,
\* and the call completes with the text accumulated up to it.
C24_SentinelEndsTheStream ==
    Streaming =>
        /\ IsPrefix(tokenTexts(service.call.log), DeltasOf(UpToSentinel(service.frames)))
        /\ service.outcome = "return" =>
                /\ tokenTexts(service.call.log) = DeltasOf(UpToSentinel(service.frames))
                /\ service.value = Concat(DeltasOf(UpToSentinel(service.frames)))

\* C24's case: a streamed call has completed on a body that holds a data
\* frame after the sentinel; the delta of that frame was passed to onToken
\* and is part of the returned text.
C24_Witness ==
    /\ Streaming
    /\ service.outcome = "return"
    /\ service.frames = <<Frame("J:a"), Frame("[DONE]"), Frame("J:b")>>
    /\ tokenTexts(service.call.log) = << <<"a">>, <<"b">> >>
    /\ service.value = <<"a", "b">>


\* The operation has come back from a fetch that resolved with a status
\* outside 200..299.
HttpFailure ==
    /\ Cloud /\ provider.apiKey # <<>>
    /\ service.outcome \in {"return", "throw"}
    /\ service.call.response.net = "ok" /\ ~service.call.response.ok

IsSuffix(s, t) == Len(s) <= Len(t) /\ s = SubSeq(t, Len(t) - Len(s) + 1, Len(t))

\* C25: analyzeCode, generateFix and chat of a cloud provider that get a
\* non-success HTTP status fail with an error carrying the response body,
\* call no completion callback, and have issued exactly one request.
C25_HttpErrorFailsWithBody ==
    HttpFailure =>
        /\ service.outcome = "throw"
        /\ service.value # service.call.response.text
        /\ IsSuffix(service.call.response.text, service.value)
        /\ \A n \in 1..Len(service.call.log) : service.call.log[n].e # "complete"
        /\ service.call.fetches = 1

\* C25's case: analyzeCode of the openai provider met a 401 whose body is a
\* JSON error object; it failed on reading the reply path of the parsed
\* body, with an error that does not hold the body.
C25_Witness ==
    /\ HttpFailure
    /\ provider.name = "openai"
    /\ service.operation = "analyzeCode"
    /\ service.call.response = HttpError
    /\ ~service.shaped
    /\ service.outcome = "throw"
    /\ service.value = <<"TypeError">>
    /\ service.call.fetches = 1

(***************************************************************************)
(* FixAgent.run: the ways a run ends                                       *)
(***************************************************************************)
EmptyFixFailure == <<"Failed to complete the fix: ", "Provider returned an empty fix.">>

\* Run r ended in its catch block because requestFix found the
\* replacement empty.
EndedOnEmptyFix(r) ==
    /\ runs[r].pc = "done" /\ runs[r].outcome = "error"
    /\ HasSession(runs[r].sessionId)
    /\ LastMessage(runs[r].sessionId).content = EmptyFixFailure

\* C26: an empty proposed fix aborts only its attempt: while attempts remain
\* within the bound 3 the loop goes on to the next propose attempt, and the
\* run ends in failure for this cause only once the attempts are used up.
C26_EmptyFixAbortsOnlyTheAttempt ==
    \A r \in 1..MaxRuns :
        EndedOnEmptyFix(r) => runs[r].attempt = 3 /\ runs[r].proposeCount = 3

\* C26's case in the code: the first proposal was empty and the run ended
\* in error after that one attempt, without a review.
C26_Witness ==
    \E r \in 1..MaxRuns :
        /\ EndedOnEmptyFix(r)
        /\ runs[r].attempt = 1 /\ runs[r].proposeCount = 1 /\ runs[r].reviewCount = 0
        /\ replacementOf(runs[r].fullText) = <<>>
        /\ SessionOf(runs[r].sessionId).status = "error"


EditRejected == <<"VS Code rejected the workspace edit.">>
FixApplied == <<"Fix applied. Please review and run your tests.">>

\* The messages of session id in the session list ss (none if it is gone).
MessagesIn(ss, id) == IF findIndex(ss, id) = 0 THEN <<>> ELSE SessionIn(ss, id).messages

\* Some message of the sequence announces an applied fix.
AnnouncesFix(messages) == \E n \in 1..Len(messages) : messages[n].content = FixApplied

\* The step in which applyEdit reports false to run r: what it leaves.
RejectedEditStep(r) ==
    RunApplyEdit(r, FALSE) =>
        /\ runs'[r].pc = "done" /\ ~runs'[r].edited
        /\ document' = document
        /\ ~AnnouncesFix(MessagesIn(sessions', runs[r].sessionId))
        /\ HasSession(runs[r].sessionId) =>
            LET session == SessionIn(sessions', runs[r].sessionId)
                last == session.messages[Len(session.messages)]
            IN  /\ session.status = "error"
                /\ Len(session.messages) = Len(SessionOf(runs[r].sessionId).messages) + 1
                /\ last.role = "agent"
                /\ \E n \in 1..Len(last.content) :
                        SubSeq(last.content, n, Len(last.content)) = EditRejected

\* A run that ended in error without an edit leaves the document unsaved
\* and its session without the message of an applied fix.
NothingAfterRejectedEdit ==
    \A r \in 1..MaxRuns :
        (runs[r].pc = "done" /\ runs[r].outcome = "error" /\ ~runs[r].edited)
            => /\ ~AnnouncesFix(MessagesIn(sessions, runs[r].sessionId))
               /\ MaxRuns = 1 => document.saves = 0 /\ document.edits = <<>>

\* C27: when applyEdit reports false, the run ends with session status error
\* and a final agent message that holds the rejection cause; the document
\* is not saved and the message of an applied fix is not appended.
C27_RejectedEditEndsInError ==
    /\ [](NothingAfterRejectedEdit)
    /\ [][\A r \in 1..MaxRuns : RejectedEditStep(r)]_vars

\* C27's case: the user chose Apply Fix, the editor rejected the edit, and
\* the run has ended with the cause as the session's last message.
C27_Witness ==
    \E r \in 1..MaxRuns :
        /\ runs[r].pc = "done" /\ runs[r].outcome = "error" /\ runs[r].userChoice = APPLY_ACTION
        /\ HasSession(runs[r].sessionId)
        /\ LastMessage(runs[r].sessionId).content = <<"Failed to complete the fix: ">> \o EditRejected
        /\ SessionOf(runs[r].sessionId).status = "error"
        /\ document.saves = 0 /\ document.edits = <<>>


Cancelled == <<"Fix application cancelled by user.">>

\* The step in which the prompt of run r is answered with `userChoice`,
\* which is not Apply Fix: what it leaves.
DeclinedStep(r, userChoice) ==
    RunConfirm(r, userChoice) =>
        /\ runs'[r].pc = "done" /\ ~runs'[r].edited
        /\ document' = document
        /\ HasSession(runs[r].sessionId) =>
            LET session == SessionIn(sessions', runs[r].sessionId)
                last == session.messages[Len(session.messages)]
            IN  /\ session.status = "completed"
                /\ Len(session.messages) = Len(SessionOf(runs[r].sessionId).messages) + 1
                /\ last.role = "agent" /\ last.content = Cancelled /\ ~last.pending

\* A run whose user declined has made no edit, and its session, whose
\* status no later step of the run changes, is not in error.
DeclinedRunsLeaveNoEdit ==
    \A r \in 1..MaxRuns :
        (runs[r].pc = "done" /\ runs[r].userChoice \in UserChoices \ {APPLY_ACTION})
            => /\ ~runs[r].edited
               /\ MaxRuns = 1 => document.edits = <<>> /\ document.saves = 0
               /\ HasSession(runs[r].sessionId) => SessionOf(runs[r].sessionId).status = "completed"

\* C28: when the user answers the prompt for an approved proposal with
\* Cancel or dismisses it, the run ends with the cancellation message from
\* the agent and session status completed, never error, and the document is
\* unchanged.
C28_DeclinedFixIsCancelledNotFailed ==
    /\ [](DeclinedRunsLeaveNoEdit)
    /\ [][\A r \in 1..MaxRuns, userChoice \in UserChoices \ {APPLY_ACTION} : DeclinedStep(r, userChoice)]_vars

\* C28's case: the prompt was dismissed, and the run has ended with the
\* cancellation message, status completed and the document as it was.
C28_Witness ==
    \E r \in 1..MaxRuns :
        /\ runs[r].pc = "done" /\ runs[r].userChoice = "undefined"
        /\ runs[r].approval.decision = "approve"
        /\ HasSession(runs[r].sessionId)
        /\ LastMessage(runs[r].sessionId).content = Cancelled
        /\ SessionOf(runs[r].sessionId).status = "completed"
        /\ document.edits = <<>>
        /\ document.lines = [i \in 1..LineCount |-> <<ToString(i)>>]

(***************************************************************************)
(* The store: identity of sessions, order of messages                      *)
(***************************************************************************)
\* Every session of ss other than `gone` is in tt with its id and type.
KeepsSessions(ss, tt, gone) ==
    \A i \in 1..Len(ss) :
        ss[i].id # gone =>
            /\ findIndex(tt, ss[i].id) # 0
            /\ SessionIn(tt, ss[i].id).type = ss[i].type

\* The operations of the store, from st, on the session id (held or not):
\* none but deleteSession(id) and clearAll drops a session or changes a
\* type, and deleteSession(id) drops no other session.
OperationsKeepSessions(st, id) ==
    /\ KeepsSessions(st.sessions, setActiveSession(st, id).sessions, NoId)
    /\ \A role \in {"user", "agent"} :
            KeepsSessions(st.sessions, addMessage(st, id, role, <<"q">>, FALSE).sessions, NoId)
    /\ \A messageId \in 1..2 :
            /\ KeepsSessions(st.sessions,
                    updateMessage(st, id, messageId, [pending |-> FALSE, content |-> <<"q">>]).sessions, NoId)
            /\ KeepsSessions(st.sessions, appendToMessage(st, id, messageId, <<"q">>).sessions, NoId)
    /\ \A status \in ChatSessionStatus :
            KeepsSessions(st.sessions, updateSessionStatus(st, id, status).sessions, NoId)
    /\ KeepsSessions(st.sessions,
            updateSessionMetadata(st, id, [k \in {"fixProposal"} |-> <<"q">>]).sessions, NoId)
    /\ \A title \in Titles : KeepsSessions(st.sessions, renameSession(st, id, title).sessions, NoId)
    /\ KeepsSessions(st.sessions, deleteSession(st, id).sessions, id)

EveryOperationKeepsSessions(st) ==
    /\ \A id \in 0..MaxSessions : OperationsKeepSessions(st, id)
    /\ \A type \in ChatSessionType :
            KeepsSessions(st.sessions, createSession(st, type, defaultTitleForType(type), NoMetadata).sessions, NoId)

\* C29: no store operation changes the type or the id of an existing
\* session, and a session leaves the store only through deleteSession of
\* its id or through clearAll.
C29_SessionsKeepIdAndType ==
    /\ [](EveryOperationKeepsSessions(Store))
    /\ [][\A i \in 1..Len(sessions) :
            \/ KeepsSessions(<<sessions[i]>>, sessions', NoId)
            \/ findIndex(sessions', sessions[i].id) = 0 /\ (DeleteSession(sessions[i].id) \/ ClearAll)]_vars

\* C29's case: a fix session that a whole run has written to, and that was
\* then renamed, is still held under its id as a fix session.
C29_Witness ==
    /\ lastOp.op = "rename" /\ ~Blank(lastOp.title)
    /\ HasSession(lastOp.sessionId)
    /\ SessionOf(lastOp.sessionId).type = "fix"
    /\ SessionOf(lastOp.sessionId).status = "completed"
    /\ SessionOf(lastOp.sessionId).title = trim(lastOp.title)
    /\ \E r \in 1..MaxRuns : runs[r].pc = "done" /\ runs[r].sessionId = lastOp.sessionId


MessageIds(messages) == [n \in 1..Len(messages) |-> messages[n].id]

\* `new` is `old` with only the message at `index` changed, in place and
\* under the same id (index 0: nothing changed).
ChangedInPlace(old, new, index) ==
    /\ Len(new) = Len(old)
    /\ MessageIds(new) = MessageIds(old)
    /\ \A n \in 1..Len(old) : n # index => new[n] = old[n]

\* From store st, on session i: addMessage puts the new message last and
\* leaves the others as they are; updateMessage and appendToMessage change
\* the addressed message only, where it stands.
OperationsKeepOrder(st, i) ==
    LET id == st.sessions[i].id
        old == st.sessions[i].messages
    IN  /\ \A role \in {"user", "assistant"}, pending \in BOOLEAN :
            LET new == addMessage(st, id, role, <<"q">>, pending).sessions[i].messages
            IN  /\ Len(new) = Len(old) + 1
                /\ SubSeq(new, 1, Len(old)) = old
                /\ new[Len(new)].role = role /\ new[Len(new)].content = <<"q">>
                /\ new[Len(new)].id \notin {old[n].id : n \in 1..Len(old)}
        /\ \A index \in 1..Len(old) :
            /\ ChangedInPlace(old,
                    updateMessage(st, id, old[index].id, [pending |-> FALSE, content |-> <<"q">>]).sessions[i].messages,
                    index)
            /\ ChangedInPlace(old, appendToMessage(st, id, old[index].id, <<"q">>).sessions[i].messages, index)
        /\ \A other \in 1..Len(st.sessions) :
            other # i =>
                /\ addMessage(st, id, "user", <<"q">>, FALSE).sessions[other] = st.sessions[other]
                /\ \A index \in 1..Len(old) :
                        appendToMessage(st, id, old[index].id, <<"q">>).sessions[other] = st.sessions[other]

\* C30: within one session the messages are append-only in position:
\* addMessage adds at the end, updateMessage and appendToMessage change the
\* addressed message in place, so under any sequence of operations the
\* number of messages of a session never decreases and the order of the
\* ids it holds never changes.
C30_MessagesAppendOnly ==
    /\ [](\A i \in 1..Len(sessions) : OperationsKeepOrder(Store, i))
    /\ [][\A i \in 1..Len(sessions) :
            findIndex(sessions', sessions[i].id) # 0 =>
                IsPrefix(MessageIds(sessions[i].messages),
                         MessageIds(SessionIn(sessions', sessions[i].id).messages))]_vars

\* C30's case: two calls of handleUserMessage on one session have both
\* returned; the session holds their four messages in the order added, the
\* replies streamed into the second and the fourth.
C30_Witness ==
    /\ lastCall.outcome = "return"
    /\ HasSession(lastCall.sessionId)
    /\ MessageIds(SessionOf(lastCall.sessionId).messages) = <<1, 2, 3, 4>>
    /\ [n \in 1..4 |-> SessionOf(lastCall.sessionId).messages[n].role]
            = <<"user", "assistant", "user", "assistant">>
    /\ SessionOf(lastCall.sessionId).messages[2].content # <<>>
    /\ SessionOf(lastCall.sessionId).messages[4].content # <<>>
    /\ \A k \in 1..MaxChats : chats[k].pc = "done"

(***************************************************************************)
(* buildContext                                                            *)
(***************************************************************************)
ContextLineCount == Len(fixContext.document.lines)

\* C31: for every document of at least one line and every diagnostic range
\* with 0 <= start.line <= end.line, buildContext returns
\* startLine = max(0, start.line - 5) and
\* endLine = min(lineCount - 1, end.line + 5), and these satisfy
\* 0 <= startLine <= endLine <= lineCount - 1: the snippet range never
\* lies outside the document.
C31_ContextWithinDocument ==
    fixContext.built =>
        /\ fixContext.context.startLine = Max(0, fixContext.diagnostic.start - ContextPadding)
        /\ fixContext.context.endLine = Min(ContextLineCount - 1, fixContext.diagnostic.end + ContextPadding)
        /\ 0 <= fixContext.context.startLine
        /\ fixContext.context.startLine <= fixContext.context.endLine
        /\ fixContext.context.endLine <= ContextLineCount - 1

\* C31's case: the context was built for a diagnostic that starts more
\* than the padding past the last line of the document; the start line of
\* the context is not a line of the document and lies after its end line.
C31_Witness ==
    /\ fixContext.built
    /\ ContextLineCount >= 1
    /\ fixContext.diagnostic.start <= fixContext.diagnostic.end
    /\ fixContext.diagnostic.start - ContextPadding > ContextLineCount - 1
    /\ fixContext.context.startLine > ContextLineCount - 1
    /\ fixContext.context.startLine > fixContext.context.endLine
    /\ fixContext.context.snippet = <<>>

(***************************************************************************)
(* Construction from storage                                               *)
(***************************************************************************)
KeptFields == {"id", "type", "title", "metadata", "updatedAt"}

\* The session the constructor makes of one stored session.
Normalized(old, new) ==
    /\ new.allowUserInput =
            IF "allowUserInput" \in old.missing THEN (old.s.type = "qa") ELSE old.s.allowUserInput
    /\ new.status = IF "status" \in old.missing THEN "idle" ELSE old.s.status
    /\ new.messages = IF "messages" \in old.missing THEN <<>> ELSE old.s.messages
    /\ \A field \in KeptFields : new[field] = old.s[field]

\* C32: on construction every session loaded from storage is normalized: a
\* missing allowUserInput becomes (type = "qa"), a missing status becomes
\* idle, a missing messages list becomes empty, every other stored field is
\* kept; the initial activeSessionId is the id of the first loaded session,
\* or none when storage is empty.
C32_LoadedSessionsAreNormalized ==
    memento.constructed =>
        /\ Len(sessions) = Len(memento.stored)
        /\ \A i \in 1..Len(sessions) : Normalized(memento.stored[i], sessions[i])
        /\ activeSessionId = IF memento.stored = <<>> THEN NoId ELSE memento.stored[1].s.id

\* C32's case: the manager was constructed over two stored sessions; the
\* first, a fix session, lacked all three optional fields and was given
\* allowUserInput false, status idle and no messages; the second lacked
\* none and kept its completed status and its message; the first is active.
C32_Witness ==
    /\ memento.constructed
    /\ Len(memento.stored) = 2
    /\ memento.stored[1].missing = OptionalFields
    /\ memento.stored[1].s.type = "fix"
    /\ memento.stored[2].missing = {}
    /\ memento.stored[2].s.status = "completed"
    /\ sessions[1].allowUserInput = FALSE /\ sessions[1].status = "idle" /\ sessions[1].messages = <<>>
    /\ sessions[2].status = "completed" /\ Len(sessions[2].messages) = 1
    /\ activeSessionId = sessions[1].id
    /\ activeSessionId # sessions[2].id

(***************************************************************************)
(* The active session                                                      *)
(***************************************************************************)
ActiveIsHeld(st) == st.activeSessionId = NoId \/ findIndex(st.sessions, st.activeSessionId) # 0

\* createSession from st: the new session is idle, has no messages, comes
\* first in the list before the sessions held so far, and is active.
CreatesActiveFirst(st, new, type) ==
    /\ Len(new.sessions) = Len(st.sessions) + 1
    /\ Tail(new.sessions) = st.sessions
    /\ findIndex(st.sessions, new.sessions[1].id) = 0
    /\ new.sessions[1].type = type
    /\ new.sessions[1].status = "idle"
    /\ new.sessions[1].messages = <<>>
    /\ new.activeSessionId = new.sessions[1].id

ClearsAll(new) == new.sessions = <<>> /\ new.activeSessionId = NoId

\* C33: in every reachable state of the store activeSessionId is none or the
\* id of a session in the list; createSession makes the new session (status
\* idle, no messages, first in the list) the active one; clearAll leaves
\* the list empty and activeSessionId none.
C33_ActiveSessionIsHeld ==
    /\ [](/\ ActiveIsHeld(Store)
          /\ \A type \in ChatSessionType :
                CreatesActiveFirst(Store, createSession(Store, type, defaultTitleForType(type), NoMetadata), type)
          /\ ClearsAll(clearAll(Store)))
    /\ [][/\ NewSession =>
                /\ Tail(sessions') = sessions
                /\ sessions'[1].status = "idle" /\ sessions'[1].messages = <<>>
                /\ activeSessionId' = sessions'[1].id
          /\ ClearAll => sessions' = <<>> /\ activeSessionId' = NoId]_vars

\* C33's case: a session was created while a fix session with a run in
\* flight was held: the new, empty, idle session is first and active, the
\* fix session comes after it.
C33_Witness ==
    /\ Len(sessions) = 2
    /\ sessions[1].type = "qa" /\ sessions[1].status = "idle" /\ sessions[1].messages = <<>>
    /\ sessions[1].updatedAt = "created"
    /\ activeSessionId = sessions[1].id
    /\ sessions[2].type = "fix" /\ sessions[2].status = "running"
    /\ sessions[2].id < sessions[1].id

(***************************************************************************)
(* Pending messages of ended work                                          *)
(***************************************************************************)
\* The placeholder of run r's last requestFix call is still pending.
PlaceholderLeftPending(r) ==
    /\ HasMessage(runs[r].sessionId, runs[r].assistantMessage)
    /\ MessageOf(runs[r].sessionId, runs[r].assistantMessage).role = "assistant"
    /\ MessageOf(runs[r].sessionId, runs[r].assistantMessage).pending

\* C34: whenever a chat submission or a fix run has ended (the status of
\* its session is idle after a completed submission, or completed or error
\* after a run or a failed submission), no message of that session is
\* pending: a provider call that fails before it signals completion does
\* not leave its assistant placeholder pending.
C34_NoPendingAfterTheEnd ==
    \A i \in 1..Len(sessions) :
        sessions[i].status \in {"idle", "completed", "error"} => PendingOf(sessions[i]) = {}

\* C34's case: the provider call of requestFix failed before completing;
\* the run has ended in error, its session has status error and the
\* failure as its last message, and the placeholder of the call is still
\* pending.
C34_Witness ==
    \E r \in 1..MaxRuns :
        /\ runs[r].pc = "done" /\ runs[r].outcome = "error"
        /\ runs[r].proposeCount = 1 /\ runs[r].reviewCount = 0
        /\ \A j \in 1..Len(runs[r].call.log) : runs[r].call.log[j].e # "complete"
        /\ HasSession(runs[r].sessionId)
        /\ SessionOf(runs[r].sessionId).status = "error"
        /\ DescribesOutcome(LastMessage(runs[r].sessionId).content, "error")
        /\ PlaceholderLeftPending(r)

(***************************************************************************)
(* Callbacks of a call whose session was deleted                           *)
(***************************************************************************)
\* Callback sequences a provider may still deliver: tokens, a completion.
LateEvents ==
    {<<>>, <<TokenEvent(<<"a">>)>>, <<TokenEvent(<<"a">>), TokenEvent(<<"b">>)>>,
     <<CompleteEvent(<<"a">>)>>, <<TokenEvent(<<"a">>), CompleteEvent(<<"a">>)>>}

\* The callbacks and the failure handling of handleUserMessage and of a fix
\* run, for a session id that st does not hold, give st back.
LateCallbacksIgnored(st, id) ==
    \A placeholder \in 1..2, events \in LateEvents :
        /\ controllerCallbacks(st, id, placeholder, events) = st
        /\ controllerCatch(controllerCallbacks(st, id, placeholder, events), id, placeholder) = st
        /\ requestCallbacks(st, [FreeRun EXCEPT !.sessionId = id, !.assistantMessage = placeholder], events).st = st
        /\ runCatch(st, [FreeRun EXCEPT !.sessionId = id], <<"fetch failed">>).st = st

\* Task k resumes its provider call after its session left the store.
OrphanChatStep(k) ==
    /\ chats[k].pc = "chat"
    /\ ~HasSession(chats[k].sessionId)
    /\ chats'[k] # chats[k]

\* C35: if a session is deleted (deleteSession or clearAll) while a
\* provider call for it is in flight, every later callback of that call
\* (token append, completion, status update, failure handling) leaves the
\* store as it is: the session is not created again, no other session is
\* changed; and the call still comes to its end, handled.
C35_CallbacksOfDeletedSessionChangeNothing ==
    /\ [](\A id \in 1..MaxSessions : ~HasSession(id) => LateCallbacksIgnored(Store, id))
    /\ [][\A k \in 1..MaxChats :
            OrphanChatStep(k) =>
                /\ UNCHANGED <<sessions, activeSessionId, persisted, emitted, nextId>>
                /\ \/ chats'[k].pc = "chat"
                   \/ chats'[k].pc = "done" /\ lastCall'.sessionId = chats[k].sessionId
                                            /\ lastCall'.outcome \in {"return", "throw"}
                                            /\ (lastCall'.outcome = "throw" => lastCall'.notice = ChatFailedNotice)]_vars

\* C35's case: a streamed call has just returned, tokens delivered, for a
\* session deleted while the call was in flight; the store holds another
\* session and not the deleted one.
C35_Witness ==
    /\ lastCall.sessionId # NoId
    /\ ~HasSession(lastCall.sessionId)
    /\ lastCall.outcome = "return"
    /\ Len(tokenTexts(lastCall.call.log)) >= 2
    /\ Len(sessions) = 1
    /\ sessions[1].messages = <<>>
    /\ activeSessionId = sessions[1].id

(***************************************************************************)
(* Concurrent calls on different sessions                                  *)
(***************************************************************************)
\* The step leaves every session but `id` as it was.
OthersUntouched(id) ==
    \A i \in 1..Len(sessions) :
        sessions[i].id # id =>
            /\ findIndex(sessions', sessions[i].id) # 0
            /\ SessionIn(sessions', sessions[i].id) = sessions[i]

\* The session that handleUserMessage task k writes to in this step.
SubmissionSession(k) ==
    IF chats[k].pc = "chat" THEN chats[k].sessionId
    ELSE IF chats'[k].pc = "chat" THEN chats'[k].sessionId
    ELSE lastCall'.sessionId

\* The placeholder of the call is pending and holds streamed tokens.
StreamedInto(sessionId, placeholder) ==
    /\ HasMessage(sessionId, placeholder)
    /\ MessageOf(sessionId, placeholder).pending
    /\ MessageOf(sessionId, placeholder).content # <<>>

CarriesDelta(frame) == Len(frame) >= 3 /\ frame[1] = "data:" /\ frame[3] \in {"J:a", "J:b"}

\* The deltas of all well-formed data frames of a body, in body order.
RECURSIVE AllDeltasOf(_)
AllDeltasOf(frames) ==
    IF frames = <<>> THEN <<>>
    ELSE (IF CarriesDelta(Head(frames)) THEN <<deltaOf(Head(frames)[3])>> ELSE <<>>)
         \o AllDeltasOf(Tail(frames))

\* The body arrived in reads that cut a frame in two.
FrameSplitAcrossReads ==
    /\ Len(service.call.response.reads) = 2
    /\ service.call.response.reads[1][Len(service.call.response.reads[1])] # "\n"

\* C37: in the streaming chat path the text returned, and passed to
\* onComplete, is the concatenation in body order of the non-empty content
\* deltas of all well-formed 'data:' frames of the response body, however
\* the body is split into reads (a frame split across two reads is put
\* together again), a last frame with no newline after it included.
C37_StreamedTextIsAllDeltas ==
    (Streaming /\ service.outcome = "return") =>
        /\ service.value = Concat(AllDeltasOf(service.frames))
        /\ service.call.log[Len(service.call.log)] = CompleteEvent(Concat(AllDeltasOf(service.frames)))

\* C37's case: a streamed call has returned on a body whose first frame
\* was split across two reads and whose last frame, a well-formed data
\* frame, has no newline after it; the text returned holds the delta of the
\* first frame and lacks the delta of the last.
C37_Witness ==
    /\ Streaming /\ service.outcome = "return"
    /\ FrameSplitAcrossReads
    /\ Len(service.frames) = 2
    /\ service.frames[1] = Frame("J:a")
    /\ service.frames[2] = <<"data:", " ", "J:b">>
    /\ service.value = <<"a">>
    /\ Concat(AllDeltasOf(service.frames)) = <<"a", "b">>

(***************************************************************************)
(* The request of handleUserMessage                                        *)
(***************************************************************************)
\* The user messages a submission can carry.
SubmittedMessages == {[role |-> "user", content |-> trim(content)] : content \in {c \in UserInputs : ~Blank(c)}}

\* The request ends with a submitted user message.
EndsWithSubmission(request) == request # <<>> /\ request[Len(request)] \in SubmittedMessages

\* The requests of the calls in flight and of the call that has just ended
\* (a call that failed on a missing key has issued none).
RequestsMade ==
    {chats[k].call.request : k \in {j \in 1..MaxChats : chats[j].pc = "chat"}}
    \cup (IF lastCall.outcome \in {"return", "throw"} /\ lastCall.call.request # <<>>
          THEN {lastCall.call.request} ELSE {})

\* C38: the message sequence handleUserMessage sends to the provider ends
\* with the user message just submitted: the empty pending assistant
\* placeholder created for the reply is not part of the request.
C38_RequestEndsWithTheUserMessage ==
    \A request \in RequestsMade :
        /\ EndsWithSubmission(request)
        /\ \A j \in 1..Len(request) : request[j] # [role |-> "assistant", content |-> <<>>]

\* C38's case: a call of handleUserMessage is in flight whose request ends
\* with the submitted user message followed by the empty assistant
\* placeholder, which is pending in the session.
C38_Witness ==
    \E k \in 1..MaxChats :
        /\ chats[k].pc = "chat"
        /\ Len(chats[k].call.request) >= 2
        /\ chats[k].call.request[Len(chats[k].call.request)] = [role |-> "assistant", content |-> <<>>]
        /\ chats[k].call.request[Len(chats[k].call.request) - 1] \in SubmittedMessages
        /\ HasMessage(chats[k].sessionId, chats[k].placeholder)
        /\ MessageOf(chats[k].sessionId, chats[k].placeholder).pending
        /\ MessageOf(chats[k].sessionId, chats[k].placeholder).content = <<>>

(***************************************************************************)
(* User messages                                                           *)
(***************************************************************************)
UserMessagesOf(session) == {m \in 1..Len(session.messages) : session.messages[m].role = "user"}

\* C39: a fix session never holds a message of role user: under any
\* sequence of sendMessage intents and fix runs, messages written by the
\* user are added only to sessions of type qa.
C39_NoUserMessageInFixSession ==
    \A i \in 1..Len(sessions) : UserMessagesOf(sessions[i]) # {} => sessions[i].type = "qa"

\* C39's case: the store holds two fix sessions and no other, one loaded
\* from storage and one that a run has written its messages to; a
\* sendMessage intent for one of them has just been refused as read-only.
C39_Witness ==
    /\ Len(sessions) = 2
    /\ \A i \in 1..2 : sessions[i].type = "fix" /\ UserMessagesOf(sessions[i]) = {}
    /\ \E i \in 1..2 : Len(sessions[i].messages) > 5
    /\ lastCall.outcome = "ignored"
    /\ lastCall.notice = ReadOnlySession

(***************************************************************************)
(* The audit trail of a fix session                                        *)
(***************************************************************************)
\* Some message of the sequence is the tool message of `tool`.
HasToolMessage(messages, tool) ==
    \E n \in 1..Len(messages) : messages[n].role = "tool" /\ Head(messages[n].content) = tool

\* The read_file tool message comes before every message of a provider call.
ReadFileComesFirst(messages) ==
    \E n \in 1..Len(messages) :
        /\ messages[n].role = "tool" /\ Head(messages[n].content) = "read_file"
        /\ \A m \in 1..Len(messages) : messages[m].role = "assistant" => n < m

\* C40: the audit trail of a fix session is faithful to the edit: the tool
\* message of write_file and the agent message 'Fix applied' are in the
\* transcript only if the workspace edit was applied and the document was
\* saved successfully; the tool message of read_file is appended before
\* the first provider call of the run.
C40_AuditTrailIsFaithful ==
    \A r \in 1..MaxRuns :
        (runs[r].pc # "free" /\ HasSession(runs[r].sessionId)) =>
            /\ (\/ HasToolMessage(SessionOf(runs[r].sessionId).messages, "write_file")
                \/ AnnouncesFix(SessionOf(runs[r].sessionId).messages))
                    => runs[r].edited /\ document.edits # <<>> /\ document.saves >= 1
            /\ runs[r].proposeCount >= 1 => ReadFileComesFirst(SessionOf(runs[r].sessionId).messages)

\* C40's case: the edit was applied, document.save() resolved to false, and
\* the run has ended as applied: the transcript holds the read_file
\* message, the write_file message and 'Fix applied', the session is
\* completed, and the document was never saved.
C40_Witness ==
    \E r \in 1..MaxRuns :
        /\ runs[r].pc = "done" /\ runs[r].outcome = "applied"
        /\ HasSession(runs[r].sessionId)
        /\ runs[r].edited /\ document.edits # <<>>
        /\ document.saves = 0
        /\ ReadFileComesFirst(SessionOf(runs[r].sessionId).messages)
        /\ HasToolMessage(SessionOf(runs[r].sessionId).messages, "write_file")
        /\ LastMessage(runs[r].sessionId).content = FixApplied
        /\ SessionOf(runs[r].sessionId).status = "completed"

============================================================================
